---- MODULE Spec2Model ----
EXTENDS Integers, Sequences, FiniteSets, Bags, TLC

(***************************************************************************)
(* dictionary_lsp: the suggestion engine.                                  *)
(*                                                                         *)
(* A character is its Unicode scalar value (a natural number), a word is a *)
(* sequence of characters.  'a' = 97 .. 'z' = 122, 'A' = 65 .. 'Z' = 90.   *)
(***************************************************************************)

VARIABLES
  HIGH_FREQ_TRIE,   \* tire.rs:11  Option<Trie<char>>
  MID_FREQ_TRIE,    \* tire.rs:12
  LOW_FREQ_TRIE,    \* tire.rs:13
  LAST_INIT_TIME,   \* tire.rs:14  Option<Instant>
  PREFIX_CACHE,     \* tire.rs:15  LruCache<String, Vec<String>>, least recent first
  now,              \* the monotonic clock read by Instant::now(), in seconds
  pc,               \* per thread: the position inside the running call
  loc,              \* per thread: arguments, locals and return value of the call
  provider,         \* SqliteDictionaryProvider: its freq_path: Option<String>
  last_call,        \* the last facade call: arguments, what it consulted, result
  completion,       \* the last on_completion request and its response
  HOT_CACHE,        \* fuzzy.rs:45  LruCache<u64, Vec<String>>, least recent first
  CANDIDATE_CACHE,  \* fuzzy.rs:39  DashMap<u64, CacheEntry>
  generated,        \* the last generate_candidates call and what decided its result
  task,             \* per async task in generate_candidates: position, locals, locks
  extracted,        \* the last call of get_current_word_and_start and its result
  request,          \* per concurrent on_completion request: position, locals, response
  document_guard,   \* the holder of the mutex of document_map
  listed,           \* the last call of generate_candidates with its list in order
  json,             \* JsonDictionaryProvider: its fields, the dictionary file, its calls
  edit              \* one run of generate_distance_1_ascii_parallel: phase, buffers, results

vars == <<HIGH_FREQ_TRIE, MID_FREQ_TRIE, LOW_FREQ_TRIE, LAST_INIT_TIME,
          PREFIX_CACHE, now, pc, loc, provider, last_call, completion,
          HOT_CACHE, CANDIDATE_CACHE, generated, task, extracted,
          request, document_guard, listed, json, edit>>

fuzzyVars == <<HOT_CACHE, CANDIDATE_CACHE, generated, task>>

trieVars == <<HIGH_FREQ_TRIE, MID_FREQ_TRIE, LOW_FREQ_TRIE, LAST_INIT_TIME,
              PREFIX_CACHE, now, pc, loc>>

sortVars == <<listed, json, edit>>

facadeVars == <<provider, last_call, completion, extracted, request,
                document_guard, sortVars>>

----------------------------------------------------------------------------
(* Bounds of the model *)

MaxLimit == 2      \* the limits a query is called with are 0..MaxLimit
TickStep == 3600   \* seconds the clock advances in one Tick
MaxNow == 3600     \* the clock stops here
Buckets == 32      \* the buckets of the hash sets whose order of iteration is modelled
MaxAccess == 4     \* a call is made while the access count of its cold entry is below MaxAccess
MaxLineLen == 3    \* the lines get_current_word_and_start is called on have 0..MaxLineLen characters

(* Program constants *)

GuardSecs == 3600        \* tire.rs:22
PrefixCacheCap == 1000   \* tire.rs:16
FreqLimit == 5           \* dictionary_data.rs:638  LIMIT 5
MaxPrefixLen == 20       \* dictionary_data.rs:355
DefaultMaxDistance == 3  \* config.rs:74

Procs == {"t1", "t2"}   \* concurrent threads calling into tire.rs
Limits == 0..MaxLimit

----------------------------------------------------------------------------
(* Strings *)

Alphabet == 97..122      \* 'a'..='z'

starts_with(w, p) == Len(p) <= Len(w) /\ SubSeq(w, 1, Len(p)) = p

\* Ord on sequences of characters, as on Rust strings and on trie labels.
LexLess(u, v) ==
  \E k \in 0..Len(u) :
    /\ k <= Len(v)
    /\ \A i \in 1..k : u[i] = v[i]
    /\ \/ k = Len(u) /\ k < Len(v)
       \/ k < Len(u) /\ k < Len(v) /\ u[k + 1] < v[k + 1]

RECURSIVE SortLex(_)
SortLex(S) ==
  IF S = {} THEN <<>>
  ELSE LET m == CHOOSE x \in S : \A y \in S \ {x} : LexLess(x, y)
       IN <<m>> \o SortLex(S \ {m})

Take(s, n) == SubSeq(s, 1, IF n < Len(s) THEN n ELSE Len(s))

Range(s) == {s[i] : i \in 1..Len(s)}

\* char::is_uppercase / to_lowercase / to_uppercase on the characters of the
\* model: the ASCII letters, U+00C9 and U+00E9 (E with acute, 201 and 233),
\* and U+0131 (dotless i, 305), a lower-case letter whose upper case is 'I'
\* while the lower case of 'I' is 'i'
is_uppercase(c) == c \in 65..90 \/ c = 201
to_lowercase_char(c) ==
  IF c \in 65..90 THEN c + 32 ELSE IF c = 201 THEN 233 ELSE c
to_uppercase_char(c) ==
  IF c \in 97..122 THEN c - 32
  ELSE IF c = 233 THEN 201
  ELSE IF c = 305 THEN 73
  ELSE c
to_lowercase(w) == [i \in 1..Len(w) |-> to_lowercase_char(w[i])]

----------------------------------------------------------------------------
(* The word sources: SQLite files with a word_frequencies table.  A source *)
(* is what opening, preparing and querying the file at a path gives.       *)

w_a == <<97>>
w_ab == <<97, 98>>
w_ac == <<97, 99>>
w_abc == <<97, 98, 99>>
w_b == <<98>>

Row(w, f) == [ok |-> TRUE, word |-> w, frequency |-> f]

\* three rows: one word per tier
Table1 == {Row(w_ab, 100), Row(w_a, 50), Row(w_ac, 10)}
\* two rows: words_per_group = 0, both words land in the low tier
Table2 == {Row(w_ac, 80), Row(w_ab, 60)}

\* a row whose columns do not convert to (String, i64): query_map yields Err
BadRow(f) == [ok |-> FALSE, word |-> <<>>, frequency |-> f]
\* three rows, the second one does not parse
Table3 == {Row(w_b, 90), BadRow(70), Row(w_abc, 40)}

\* words for the queries that differ in case
w_i == <<105>>
w_dotless_i == <<305>>
Table4 == {Row(w_ab, 100), Row(w_i, 50), Row(w_a, 10)}

\* seven candidates of the prefix "a" and one word that is none
Table5 == {Row(w_b, 200), Row(w_ab, 100), Row(w_ac, 90), Row(<<97, 100>>, 80),
           Row(<<97, 101>>, 70), Row(<<97, 102>>, 60), Row(<<97, 103>>, 50),
           Row(w_a, 40)}

\* three rows, the word of the first one is the word of the last one too
Table6 == {Row(w_ab, 100), Row(w_a, 50), Row(w_ab, 10)}

Paths == {"freq1.db", "freq2.db", "badrow.db", "nodir/freq.db", "empty.db"}

\* the sources the two-builder specification reads
BuildPaths == {"freq1.db", "badrow.db", "nodir/freq.db"}

Source(path) ==
  CASE path = "freq1.db" -> [open |-> TRUE, prepare |-> TRUE, table |-> Table1]
    [] path = "freq2.db" -> [open |-> TRUE, prepare |-> TRUE, table |-> Table2]
    [] path = "badrow.db" -> [open |-> TRUE, prepare |-> TRUE, table |-> Table3]
    [] path = "case.db" -> [open |-> TRUE, prepare |-> TRUE, table |-> Table4]
    [] path = "freq8.db" -> [open |-> TRUE, prepare |-> TRUE, table |-> Table5]
    [] path = "twice.db" -> [open |-> TRUE, prepare |-> TRUE, table |-> Table6]
    [] path = "empty.db" -> [open |-> TRUE, prepare |-> FALSE, table |-> {}]
    [] OTHER             -> [open |-> FALSE, prepare |-> FALSE, table |-> {}]

\* SELECT word, frequency FROM word_frequencies ORDER BY frequency DESC
RECURSIVE OrderByFrequencyDesc(_)
OrderByFrequencyDesc(T) ==
  IF T = {} THEN <<>>
  ELSE LET m == CHOOSE r \in T : \A q \in T : q.frequency <= r.frequency
       IN <<m>> \o OrderByFrequencyDesc(T \ {m})

----------------------------------------------------------------------------
(* tire.rs: the tiered global trie and its prefix cache *)

None == [some |-> FALSE, words |-> {}]
Some(ws) == [some |-> TRUE, words |-> ws]

NoTime == [some |-> FALSE, t |-> 0]
SomeTime(t) == [some |-> TRUE, t |-> t]

\* a third rounded up
words_per_group_rounded_up(rows) == (Len(rows) + 2) \div 3

\* rows.collect() followed by the distribution loop: row number i (counted
\* from 0 over all rows, parsed or not) goes to the high tier when
\* i < words_per_group, to the mid tier when i < 2 * words_per_group, to the
\* low tier otherwise; a row that is not Ok is skipped.
words_per_group(rows) == Len(rows) \div 3

\* a build that gives up at the first row that does not parse
BuildTriesUntilBadRow(rows) ==
  LET g == words_per_group(rows)
      Pushed(lo, hi) ==
        {rows[i].word : i \in {j \in lo..hi : \A k \in 1..j : rows[k].ok}}
  IN [high |-> Pushed(1, g),
      mid  |-> Pushed(g + 1, 2 * g),
      low  |-> Pushed(2 * g + 1, Len(rows))]

BuildTries(rows) ==
  LET g == words_per_group(rows)
      Pushed(lo, hi) == {rows[i].word : i \in {j \in lo..hi : rows[j].ok}}
  IN [high |-> Pushed(1, g),
      mid  |-> Pushed(g + 1, 2 * g),
      low  |-> Pushed(2 * g + 1, Len(rows))]

\* Trie::predictive_search: the stored words that have the query as a prefix,
\* enumerated depth first with the children of a node in label order.
predictive_search(trie, query) ==
  SortLex({w \in trie.words : starts_with(w, query)})

\* LruCache (least recently used entry first)
CacheIndex(cache, k) == {i \in 1..Len(cache) : cache[i].key = k}

CacheContains(cache, k) == CacheIndex(cache, k) # {}

CachePeek(cache, k) == cache[CHOOSE i \in CacheIndex(cache, k) : TRUE].value

Remove(s, i) == SubSeq(s, 1, i - 1) \o SubSeq(s, i + 1, Len(s))

CachePut(cache, k, v) ==
  LET e == [key |-> k, value |-> v]
  IN IF CacheContains(cache, k)
     THEN Append(Remove(cache, CHOOSE i \in CacheIndex(cache, k) : TRUE), e)
     ELSE IF Len(cache) >= PrefixCacheCap
          THEN Append(Tail(cache), e)
          ELSE Append(cache, e)

\* an index that counts as initialized only while its build is recent
initialized_while_recent ==
  /\ HIGH_FREQ_TRIE.some
  /\ LAST_INIT_TIME.some /\ now - LAST_INIT_TIME.t < GuardSecs

is_trie_initialized == HIGH_FREQ_TRIE.some

Unread == [read |-> FALSE, trie |-> None]
Read(t) == [read |-> TRUE, trie |-> t]

IdleLoc ==
  [op |-> "none", path |-> "", prefix |-> <<>>, limit |-> 0,
   results |-> <<>>, hit |-> FALSE,
   view |-> [high |-> Unread, mid |-> Unread, low |-> Unread],
   built |-> [high |-> {}, mid |-> {}, low |-> {}],
   status |-> "none"]

Goto(p, label) == pc' = [pc EXCEPT ![p] = label]

(* initialize_global_trie(freq_path) *)

StartInit(p, path) ==
  /\ pc[p] = "idle"
  /\ Goto(p, "i_guard")
  /\ loc' = [loc EXCEPT ![p] = [IdleLoc EXCEPT !.op = "init", !.path = path]]
  /\ UNCHANGED <<HIGH_FREQ_TRIE, MID_FREQ_TRIE, LOW_FREQ_TRIE, LAST_INIT_TIME,
                 PREFIX_CACHE, now>>
  /\ UNCHANGED <<facadeVars, fuzzyVars>>

\* a guard that never finds the last build recent
RecentIgnored == FALSE

\* lines 21-26: the recency guard
Recent == LAST_INIT_TIME.some /\ now - LAST_INIT_TIME.t < GuardSecs

InitGuard(p) ==
  /\ pc[p] = "i_guard"
  /\ IF Recent
     THEN /\ Goto(p, "ret")
          /\ loc' = [loc EXCEPT ![p].status = "Ok"]
     ELSE /\ Goto(p, "i_open")
          /\ UNCHANGED loc
  /\ UNCHANGED <<HIGH_FREQ_TRIE, MID_FREQ_TRIE, LOW_FREQ_TRIE, LAST_INIT_TIME,
                 PREFIX_CACHE, now>>
  /\ UNCHANGED <<facadeVars, fuzzyVars>>

\* lines 33-53: open, prepare, query_map, each failure returned with `?`
SourceFails(path) == ~Source(path).open \/ ~Source(path).prepare

\* a build that records its time before the source has been read
OpenFailureArmsGuard ==
  /\ LAST_INIT_TIME' = SomeTime(now)
  /\ UNCHANGED <<HIGH_FREQ_TRIE, MID_FREQ_TRIE, LOW_FREQ_TRIE, PREFIX_CACHE>>

\* what a failed open/prepare/query leaves in the shared state
OpenFailureEffect ==
  UNCHANGED <<HIGH_FREQ_TRIE, MID_FREQ_TRIE, LOW_FREQ_TRIE, LAST_INIT_TIME,
              PREFIX_CACHE>>

\* lines 33-93: read the source and build the three tries locally
InitOpen(p) ==
  /\ pc[p] = "i_open"
  /\ IF SourceFails(loc[p].path)
     THEN /\ Goto(p, "ret")
          /\ loc' = [loc EXCEPT ![p].status = "Err"]
          /\ OpenFailureEffect
     ELSE /\ Goto(p, "i_high")
          /\ loc' = [loc EXCEPT ![p].built =
                       BuildTries(OrderByFrequencyDesc(Source(loc[p].path).table))]
          /\ UNCHANGED <<HIGH_FREQ_TRIE, MID_FREQ_TRIE, LOW_FREQ_TRIE,
                         LAST_INIT_TIME, PREFIX_CACHE>>
  /\ UNCHANGED now
  /\ UNCHANGED <<facadeVars, fuzzyVars>>

\* lines 95-98
InitInstallHigh(p) ==
  /\ pc[p] = "i_high"
  /\ HIGH_FREQ_TRIE' = Some(loc[p].built.high)
  /\ Goto(p, "i_mid")
  /\ UNCHANGED <<MID_FREQ_TRIE, LOW_FREQ_TRIE, LAST_INIT_TIME, PREFIX_CACHE,
                 now, loc>>
  /\ UNCHANGED <<facadeVars, fuzzyVars>>

\* lines 100-103
InitInstallMid(p) ==
  /\ pc[p] = "i_mid"
  /\ MID_FREQ_TRIE' = Some(loc[p].built.mid)
  /\ Goto(p, "i_low")
  /\ UNCHANGED <<HIGH_FREQ_TRIE, LOW_FREQ_TRIE, LAST_INIT_TIME, PREFIX_CACHE,
                 now, loc>>
  /\ UNCHANGED <<facadeVars, fuzzyVars>>

\* lines 105-108
InitInstallLow(p) ==
  /\ pc[p] = "i_low"
  /\ LOW_FREQ_TRIE' = Some(loc[p].built.low)
  /\ Goto(p, "i_clear")
  /\ UNCHANGED <<HIGH_FREQ_TRIE, MID_FREQ_TRIE, LAST_INIT_TIME, PREFIX_CACHE,
                 now, loc>>
  /\ UNCHANGED <<facadeVars, fuzzyVars>>

\* lines 111-114
InitClearCache(p) ==
  /\ pc[p] = "i_clear"
  /\ PREFIX_CACHE' = <<>>
  /\ Goto(p, "i_stamp")
  /\ UNCHANGED <<HIGH_FREQ_TRIE, MID_FREQ_TRIE, LOW_FREQ_TRIE, LAST_INIT_TIME,
                 now, loc>>
  /\ UNCHANGED <<facadeVars, fuzzyVars>>

\* lines 116-128
InitStamp(p) ==
  /\ pc[p] = "i_stamp"
  /\ LAST_INIT_TIME' = SomeTime(now)
  /\ Goto(p, "ret")
  /\ loc' = [loc EXCEPT ![p].status = "Ok"]
  /\ UNCHANGED <<HIGH_FREQ_TRIE, MID_FREQ_TRIE, LOW_FREQ_TRIE, PREFIX_CACHE, now>>
  /\ UNCHANGED <<facadeVars, fuzzyVars>>

(* find_words_by_prefix(prefix, limit) *)

StartFind(p, prefix, limit) ==
  /\ pc[p] = "idle"
  /\ Goto(p, "q_cache")
  /\ loc' = [loc EXCEPT ![p] =
               [IdleLoc EXCEPT !.op = "find", !.prefix = prefix, !.limit = limit]]
  /\ UNCHANGED <<HIGH_FREQ_TRIE, MID_FREQ_TRIE, LOW_FREQ_TRIE, LAST_INIT_TIME,
                 PREFIX_CACHE, now>>
  /\ UNCHANGED <<facadeVars, fuzzyVars>>

\* lines 139-146: what a cache hit returns for a call with this limit
CachedResult(cache, prefix, limit) == CachePeek(cache, prefix)

\* a lookup with LruCache::get on the shared cache: a hit makes the entry
\* the most recently used
FindCacheRefreshing(p) ==
  /\ pc[p] = "q_cache"
  /\ IF CacheContains(PREFIX_CACHE, loc[p].prefix)
     THEN /\ Goto(p, "ret")
          /\ loc' = [loc EXCEPT
                       ![p].results =
                          CachedResult(PREFIX_CACHE, loc[p].prefix, loc[p].limit),
                       ![p].hit = TRUE]
          /\ LET i == CHOOSE j \in CacheIndex(PREFIX_CACHE, loc[p].prefix) : TRUE
             IN PREFIX_CACHE' = Append(Remove(PREFIX_CACHE, i), PREFIX_CACHE[i])
     ELSE /\ Goto(p, "q_high")
          /\ UNCHANGED <<loc, PREFIX_CACHE>>
  /\ UNCHANGED <<HIGH_FREQ_TRIE, MID_FREQ_TRIE, LOW_FREQ_TRIE, LAST_INIT_TIME,
                 now>>
  /\ UNCHANGED <<facadeVars, fuzzyVars>>

\* lines 138-149: the lookup runs on a clone of the cache, so the shared
\* cache and its recency order are left alone
FindCache(p) ==
  /\ pc[p] = "q_cache"
  /\ IF CacheContains(PREFIX_CACHE, loc[p].prefix)
     THEN /\ Goto(p, "ret")
          /\ loc' = [loc EXCEPT
                       ![p].results =
                          CachedResult(PREFIX_CACHE, loc[p].prefix, loc[p].limit),
                       ![p].hit = TRUE]
     ELSE /\ Goto(p, "q_high")
          /\ UNCHANGED loc
  /\ UNCHANGED <<HIGH_FREQ_TRIE, MID_FREQ_TRIE, LOW_FREQ_TRIE, LAST_INIT_TIME,
                 PREFIX_CACHE, now>>
  /\ UNCHANGED <<facadeVars, fuzzyVars>>

\* lines 166-175: one iteration of the loop on a tier that is Some
SearchTier(trie, prefix, limit, results) ==
  results \o Take(predictive_search(trie, prefix), limit - Len(results))

\* lines 159-177: one iteration of the loop over the three tiers
FindTier(p, label, trie, tier, next) ==
  /\ pc[p] = label
  /\ IF Len(loc[p].results) >= loc[p].limit
     THEN /\ Goto(p, "q_put")
          /\ UNCHANGED loc
     ELSE /\ Goto(p, next)
          /\ loc' = [loc EXCEPT
                       ![p].results =
                          IF trie.some
                          THEN SearchTier(trie, loc[p].prefix, loc[p].limit,
                                          loc[p].results)
                          ELSE loc[p].results,
                       ![p].view = [loc[p].view EXCEPT ![tier] = Read(trie)]]
  /\ UNCHANGED <<HIGH_FREQ_TRIE, MID_FREQ_TRIE, LOW_FREQ_TRIE, LAST_INIT_TIME,
                 PREFIX_CACHE, now>>
  /\ UNCHANGED <<facadeVars, fuzzyVars>>

FindHigh(p) == FindTier(p, "q_high", HIGH_FREQ_TRIE, "high", "q_mid")
FindMid(p) == FindTier(p, "q_mid", MID_FREQ_TRIE, "mid", "q_low")
FindLow(p) == FindTier(p, "q_low", LOW_FREQ_TRIE, "low", "q_put")

\* a query that returns its result without storing it
FindWithoutPut(p) ==
  /\ pc[p] = "q_put"
  /\ Goto(p, "ret")
  /\ UNCHANGED <<HIGH_FREQ_TRIE, MID_FREQ_TRIE, LOW_FREQ_TRIE, LAST_INIT_TIME,
                 PREFIX_CACHE, now, loc>>
  /\ UNCHANGED <<facadeVars, fuzzyVars>>

\* lines 179-183
FindPut(p) ==
  /\ pc[p] = "q_put"
  /\ PREFIX_CACHE' = CachePut(PREFIX_CACHE, loc[p].prefix, loc[p].results)
  /\ Goto(p, "ret")
  /\ UNCHANGED <<HIGH_FREQ_TRIE, MID_FREQ_TRIE, LOW_FREQ_TRIE, LAST_INIT_TIME,
                 now, loc>>
  /\ UNCHANGED <<facadeVars, fuzzyVars>>

\* the call has returned (pc = "ret" holds its return value): the thread is
\* free for its next call
Return(p) ==
  /\ pc[p] = "ret"
  /\ Goto(p, "idle")
  /\ loc' = [loc EXCEPT ![p] = IdleLoc]
  /\ UNCHANGED <<HIGH_FREQ_TRIE, MID_FREQ_TRIE, LOW_FREQ_TRIE, LAST_INIT_TIME,
                 PREFIX_CACHE, now>>
  /\ UNCHANGED <<facadeVars, fuzzyVars>>

\* the clock behind Instant::now()
Tick ==
  /\ now + TickStep <= MaxNow
  /\ now' = now + TickStep
  /\ UNCHANGED <<HIGH_FREQ_TRIE, MID_FREQ_TRIE, LOW_FREQ_TRIE, LAST_INIT_TIME,
                 PREFIX_CACHE, pc, loc>>
  /\ UNCHANGED <<facadeVars, fuzzyVars>>

QueryPrefixes == {w_a, w_ab}

\* find_words_by_prefix run against one index as a whole
FindIn(high, mid, low, prefix, limit) ==
  LET Step(t, r) == IF Len(r) >= limit \/ ~t.some THEN r
                    ELSE SearchTier(t, prefix, limit, r)
  IN Step(low, Step(mid, Step(high, <<>>)))

(* find_words_respecting_case(prefix, limit) *)

\* find_words_by_prefix run without interruption on a state of the cache and
\* the tries: its result and the cache it leaves
find_words_by_prefix_run(cache, high, mid, low, prefix, limit) ==
  IF CacheContains(cache, prefix)
  THEN [results |-> CachedResult(cache, prefix, limit), cache |-> cache,
        hit |-> TRUE]
  ELSE LET r == FindIn(high, mid, low, prefix, limit)
       IN [results |-> r, cache |-> CachePut(cache, prefix, r), hit |-> FALSE]

\* lines 196-202: the first character upper-cased, the rest as it is
capitalize(word) ==
  IF word = <<>> THEN <<>> ELSE <<to_uppercase_char(word[1])>> \o Tail(word)

capitalize_all(words) == [i \in 1..Len(words) |-> capitalize(words[i])]

\* a lookup with the prefix as it was typed
find_words_respecting_case_as_typed(cache, high, mid, low, prefix, limit) ==
  LET run == find_words_by_prefix_run(cache, high, mid, low, prefix, limit)
  IN [run EXCEPT !.results =
        IF prefix # <<>> /\ is_uppercase(prefix[1])
        THEN capitalize_all(run.results) ELSE run.results]

\* lines 187-207
find_words_respecting_case(cache, high, mid, low, prefix, limit) ==
  LET run == find_words_by_prefix_run(cache, high, mid, low,
                                      to_lowercase(prefix), limit)
  IN [run EXCEPT !.results =
        IF prefix # <<>> /\ is_uppercase(prefix[1])
        THEN capitalize_all(run.results) ELSE run.results]

\* the prefix with its first character upper-cased
UpperFirst(q) == capitalize(q)

\* lower-case prefixes, and the prefixes a call is made with
CasePrefixes == {w_a, w_ab, w_i, w_dotless_i}
CaseArguments == CasePrefixes \cup {UpperFirst(q) : q \in CasePrefixes}

\* one call of find_words_respecting_case
RespectingCaseCall(p, prefix, limit) ==
  LET run == find_words_respecting_case(PREFIX_CACHE, HIGH_FREQ_TRIE,
                                        MID_FREQ_TRIE, LOW_FREQ_TRIE,
                                        prefix, limit)
  IN /\ pc[p] = "idle"
     /\ Goto(p, "ret")
     /\ loc' = [loc EXCEPT ![p] =
                  [IdleLoc EXCEPT !.op = "find_case", !.prefix = prefix,
                                  !.limit = limit, !.results = run.results,
                                  !.hit = run.hit]]
     /\ PREFIX_CACHE' = run.cache
     /\ UNCHANGED <<HIGH_FREQ_TRIE, MID_FREQ_TRIE, LOW_FREQ_TRIE, LAST_INIT_TIME,
                    now>>
     /\ UNCHANGED <<facadeVars, fuzzyVars>>

----------------------------------------------------------------------------
(* dictionary_data.rs: SqliteDictionaryProvider, the suggestion facade *)

\* a provider is made from a dictionary path and a frequency path
NoPath == [some |-> FALSE, path |-> "", dictionary |-> "dict.db"]
SomePath(path) == [some |-> TRUE, path |-> path, dictionary |-> "dict.db"]
JsonProvider(dictionary) ==
  [some |-> TRUE, path |-> "freq1.db", dictionary |-> dictionary]

\* Config::is_sqlite: path.ends_with(".db")
is_sqlite(dictionary) == dictionary = "dict.db"

\* char::len_utf8 and str::len (a length in bytes)
len_utf8(c) ==
  IF c < 128 THEN 1 ELSE IF c < 2048 THEN 2 ELSE IF c < 65536 THEN 3 ELSE 4

RECURSIVE str_len(_)
str_len(w) == IF w = <<>> THEN 0 ELSE len_utf8(Head(w)) + str_len(Tail(w))

is_ascii(w) == \A i \in 1..Len(w) : w[i] < 128

\* one letter a..z appended to the word
dd_generate_prefix_completions_ascii(w) == {Append(w, c) : c \in Alphabet}

dd_generate_prefix_completions_unicode(w) == {Append(w, c) : c \in Alphabet}

\* (len / 2).max(1), a 0-based index
dd_modify_start(n) == IF n \div 2 > 1 THEN n \div 2 ELSE 1

\* insertions before every position of the word, substitutions and deletions
\* at the 0-based indexes modify_start..len-1 (index i is position i + 1)
dd_insertions(w) ==
  {SubSeq(w, 1, i) \o <<c>> \o SubSeq(w, i + 1, Len(w)) :
     i \in 0..(Len(w) - 1), c \in Alphabet}

dd_substitutions(w) ==
  {[w EXCEPT ![x[1] + 1] = x[2]] :
     x \in {y \in (dd_modify_start(Len(w))..(Len(w) - 1)) \X Alphabet :
              y[2] # w[y[1] + 1]}}

dd_deletions(w) ==
  {SubSeq(w, 1, i) \o SubSeq(w, i + 2, Len(w)) :
     i \in dd_modify_start(Len(w))..(Len(w) - 1)}

dd_generate_distance_1_ascii_modified(w) ==
  dd_insertions(w) \cup dd_substitutions(w) \cup dd_deletions(w)

dd_generate_distance_1_unicode_modified(w) ==
  dd_insertions(w) \cup dd_substitutions(w) \cup dd_deletions(w)

\* generate_levenshtein_candidates: the Vec it returns is the content of a
\* HashSet in iteration order; its callers use it as a set.
generate_levenshtein_candidates(prefix, include_distance_2) ==
  IF prefix = <<>> THEN {<<c>> : c \in Alphabet}
  ELSE IF str_len(prefix) > MaxPrefixLen THEN {}
  ELSE
    LET step1 == {prefix} \cup
                 (IF is_ascii(prefix)
                  THEN dd_generate_prefix_completions_ascii(prefix)
                  ELSE dd_generate_prefix_completions_unicode(prefix))
        step2 == step1 \cup
                 (IF is_ascii(prefix)
                  THEN dd_generate_distance_1_ascii_modified(prefix)
                  ELSE dd_generate_distance_1_unicode_modified(prefix))
        bases == {b \in step2 : starts_with(b, prefix)}
        step3 == UNION {IF is_ascii(b)
                        THEN dd_generate_prefix_completions_ascii(b)
                        ELSE dd_generate_prefix_completions_unicode(b) :
                        b \in bases}
    IN IF include_distance_2 THEN step2 \cup step3 ELSE step2

\* the prefixes the facade is called with in this model, and their candidates
\* (computed once)
LongPrefix == [i \in 1..(MaxPrefixLen + 1) |-> 97]

FacadePrefixes == {<<>>, w_a, w_ab, LongPrefix}

TypedWords == {<<65>>, <<65, 98>>, w_a, <<201, 97>>}

CandidateTable ==
  [p \in FacadePrefixes \cup TypedWords |-> generate_levenshtein_candidates(p, TRUE)]

candidates_of(prefix) ==
  IF prefix \in DOMAIN CandidateTable THEN CandidateTable[prefix]
  ELSE generate_levenshtein_candidates(prefix, TRUE)

Err == [kind |-> "Err", value |-> <<>>]
OkNone == [kind |-> "None", value |-> <<>>]
OkSome(v) == [kind |-> "Some", value |-> v]

\* a query without ORDER BY frequency DESC: the rows come least frequent first
freq_query_unordered(path, candidates) ==
  IF SourceFails(path) THEN Err
  ELSE LET rows == OrderByFrequencyDesc(
                     {r \in Source(path).table : r.ok /\ r.word \in candidates})
       IN OkSome(Take([i \in 1..Len(rows) |-> rows[Len(rows) + 1 - i].word],
                      FreqLimit))

\* the blocking task: open the frequency database, prepare and run
\* SELECT word FROM word_frequencies WHERE word IN (candidates)
\*   ORDER BY frequency DESC LIMIT 5
freq_query(path, candidates) ==
  IF SourceFails(path) THEN Err
  ELSE LET rows == OrderByFrequencyDesc(
                     {r \in Source(path).table : r.ok /\ r.word \in candidates})
       IN OkSome(Take([i \in 1..Len(rows) |-> rows[i].word], FreqLimit))

\* what the facade does with a failure of the frequency source
freq_failure == Err

\* SqliteDictionaryProvider::find_words_by_prefix; task_failed is whether the
\* blocking task ended in a JoinError instead of running to its end
sqlite_find_words_by_prefix(prov, prefix, task_failed) ==
  LET candidate_words == candidates_of(prefix)
      Out(r, freq) == [result |-> r, used_generator |-> TRUE,
                       used_freq |-> freq, used_trie |-> FALSE,
                       task_failed |-> task_failed]
  IN IF candidate_words = {} THEN Out(OkNone, FALSE)
     ELSE IF ~prov.some THEN Out(freq_failure, FALSE)
     ELSE IF task_failed THEN Out(freq_failure, TRUE)
     ELSE LET batch_results == freq_query(prov.path, candidate_words)
          IN IF batch_results.kind = "Err" THEN Out(freq_failure, TRUE)
             ELSE IF batch_results.value = <<>> THEN Out(OkNone, TRUE)
             ELSE Out(batch_results, TRUE)

\* the JSON dictionaries: whether the file reads and parses, and the keys of
\* its object ("ab", U+00C9 "b", U+00E9 "a")
JsonFile(dictionary) ==
  IF dictionary = "dict.json"
  THEN [ok |-> TRUE, keys |-> {w_ab, <<201, 98>>, <<233, 97>>}]
  ELSE [ok |-> FALSE, keys |-> {}]

JsonLimit == 50   \* dictionary_data.rs:884  take(50)

\* JsonDictionaryProvider::find_words_by_prefix on a provider that has not
\* read its dictionary yet: the first 50 keys, in the order of the map, that
\* start with the prefix when both are lower-cased
json_find_words_by_prefix(prov, prefix) ==
  IF ~JsonFile(prov.dictionary).ok THEN Err
  ELSE LET matching_words ==
             Take(SortLex({word \in JsonFile(prov.dictionary).keys :
                             starts_with(to_lowercase(word), to_lowercase(prefix))}),
                  JsonLimit)
       IN IF matching_words # <<>> THEN OkSome(matching_words) ELSE OkNone

NoCall ==
  [called |-> FALSE, prefix |-> <<>>, result |-> OkNone,
   used_generator |-> FALSE, used_freq |-> FALSE, used_trie |-> FALSE,
   task_failed |-> FALSE,
   index |-> [high |-> None, mid |-> None, low |-> None]]

\* the record of a facade call, with the state of the trie index it ran in
CallRecord(prefix, out) ==
  [called |-> TRUE, prefix |-> prefix, result |-> out.result,
   used_generator |-> out.used_generator, used_freq |-> out.used_freq,
   used_trie |-> out.used_trie, task_failed |-> out.task_failed,
   index |-> [high |-> HIGH_FREQ_TRIE, mid |-> MID_FREQ_TRIE,
              low |-> LOW_FREQ_TRIE]]

FacadeCall(prefix, task_failed) ==
  /\ is_sqlite(provider.dictionary)
  /\ last_call' = CallRecord(prefix,
                             sqlite_find_words_by_prefix(provider, prefix, task_failed))
  /\ UNCHANGED <<provider, completion, extracted, request, document_guard, sortVars>>
  /\ UNCHANGED <<trieVars, fuzzyVars>>

----------------------------------------------------------------------------
(* completion.rs: CompletionHandler *)

is_cjk_char(c) ==
  \/ c \in 19968..40959      \* 4E00..9FFF
  \/ c \in 13312..19903      \* 3400..4DBF
  \/ c \in 131072..173791    \* 20000..2A6DF
  \/ c \in 173824..177983    \* 2A700..2B73F
  \/ c \in 177984..178207    \* 2B740..2B81F

\* char::is_alphabetic on the characters of the model: the ASCII letters,
\* U+00C9, U+00E9 and the CJK ideographs are alphabetic; blanks, digits and
\* punctuation are not
is_alphabetic(c) ==
  c \in 65..90 \/ c \in 97..122 \/ c \in {201, 233} \/ is_cjk_char(c)

NoWord == [some |-> FALSE, word |-> <<>>, start |-> 0]
SomeWord(w, start) == [some |-> TRUE, word |-> w, start |-> start]

\* the left-to-right scan of extract_english_after_chinese: the position
\* (1-based, 0 for None) of the first alphabetic character after the last
\* CJK character
RECURSIVE english_start(_, _, _, _)
english_start(text, i, has_chinese, start) ==
  IF i > Len(text) THEN start
  ELSE IF is_cjk_char(text[i]) THEN english_start(text, i + 1, TRUE, 0)
  ELSE IF has_chinese /\ is_alphabetic(text[i]) /\ start = 0
       THEN english_start(text, i + 1, has_chinese, i)
  ELSE english_start(text, i + 1, has_chinese, start)

\* the scan without `english_start_idx = None` at a CJK character: the part
\* starts at the first letter after the first CJK character
extract_english_after_first_chinese(text) ==
  LET n == Len(text)
      starts == {j \in 1..n : /\ is_alphabetic(text[j]) /\ ~is_cjk_char(text[j])
                               /\ \E i \in 1..(j - 1) : is_cjk_char(text[i])}
      s == IF starts = {} THEN 0
           ELSE CHOOSE j \in starts : \A k \in starts : j <= k
      english_part == SubSeq(text, s, n)
  IN IF s # 0 /\ english_part # <<>>
          /\ \A i \in 1..Len(english_part) : is_alphabetic(english_part[i])
     THEN SomeWord(english_part, s - 1)
     ELSE NoWord

extract_english_after_chinese(text) ==
  LET s == english_start(text, 1, FALSE, 0)
      english_part == SubSeq(text, s, Len(text))
  IN IF s # 0 /\ english_part # <<>>
          /\ \A i \in 1..Len(english_part) : is_alphabetic(english_part[i])
     THEN SomeWord(english_part, s - 1)
     ELSE NoWord

extract_alphabetic_word_before_cursor(before_cursor, line) ==
  IF before_cursor = <<>> THEN NoWord
  ELSE LET n == Len(before_cursor)
           \* the scan backwards stops at the first character that is not alphabetic
           first == CHOOSE j \in 1..(n + 1) :
                      /\ \A i \in j..n : is_alphabetic(before_cursor[i])
                      /\ j > 1 => ~is_alphabetic(before_cursor[j - 1])
           current_word == SubSeq(before_cursor, first, n)
       IN IF current_word = <<>> THEN NoWord
          ELSE SomeWord(current_word, first - 1)

\* content is the sequence of the lines of the document (content.lines())
get_current_word_and_start(content, position) ==
  IF position.line + 1 > Len(content) THEN NoWord
  ELSE LET line == content[position.line + 1]
           char_pos == position.character
       IN IF char_pos > Len(line) THEN NoWord
          ELSE LET before_cursor == SubSeq(line, 1, char_pos)
                   english == extract_english_after_chinese(before_cursor)
               IN IF english.some THEN english
                  ELSE IF before_cursor # <<>>
                          /\ is_cjk_char(before_cursor[Len(before_cursor)])
                       THEN NoWord
                  ELSE extract_alphabetic_word_before_cursor(before_cursor, line)

\* the characters of the lines: a lower-case letter, an upper-case letter, a
\* blank and the ideograph U+4F60
LineChars == {97, 66, 32, 20320}

RECURSIVE LinesOfLen(_)
LinesOfLen(n) ==
  IF n = 0 THEN {<<>>}
  ELSE {Append(l, c) : l \in LinesOfLen(n - 1), c \in LineChars}

Lines == UNION {LinesOfLen(n) : n \in 0..MaxLineLen}

\* the empty document and the documents of one line
Contents == {<<>>} \cup {<<l>> : l \in Lines}

\* every cursor position of a line, one past the end of the longest line,
\* and the same on a line past the end of the document
CursorPositions == [line : {0, 1}, character : 0..(MaxLineLen + 1)]

NotExtracted ==
  [called |-> FALSE, content |-> <<>>,
   position |-> [line |-> 0, character |-> 0], result |-> NoWord]

\* one call of get_current_word_and_start
GetCurrentWord(content, position) ==
  /\ extracted' = [called |-> TRUE, content |-> content, position |-> position,
                   result |-> get_current_word_and_start(content, position)]
  /\ UNCHANGED <<provider, last_call, completion, request, document_guard, sortVars>>
  /\ UNCHANGED <<trieVars, fuzzyVars>>

\* the capitalization of lines 159-167: the first byte is upper-cased when
\* bytes 0..1 are a character of their own (an ASCII first character)
final_word(word, starts_with_uppercase) ==
  IF starts_with_uppercase /\ word # <<>> /\ word[1] < 128
  THEN [word EXCEPT ![1] = to_uppercase_char(word[1])]
  ELSE word

\* lines 169-189: the item of one word (its documentation is looked up in the
\* definition dictionary and changes none of these fields)
CompletionItem(word, position, start_pos, upper) ==
  [label |-> final_word(word, upper),
   new_text |-> final_word(word, upper),
   line |-> position.line, start |-> start_pos, end |-> position.character]

NoResponse == [kind |-> "none", items |-> <<>>, is_incomplete |-> FALSE]
ResponseNone == [kind |-> "OkNone", items |-> <<>>, is_incomplete |-> FALSE]
ResponseErr == [kind |-> "Err", items |-> <<>>, is_incomplete |-> FALSE]

ResponseList(words, position, cw) ==
  LET upper == cw.word # <<>> /\ is_uppercase(cw.word[1])
      items == [i \in 1..Len(words) |->
                  CompletionItem(words[i], position, cw.start, upper)]
  IN [kind |-> "OkSome", items |-> items,
      is_incomplete |-> Len(items) >= DefaultMaxDistance]

\* a provider error carried to the client with `?`
provider_outcome_propagating(res, position, cw) ==
  IF res.kind = "Some" THEN ResponseList(res.value, position, cw)
  ELSE IF res.kind = "Err" THEN ResponseErr
  ELSE ResponseNone

\* lines 110-124: Ok(Some(words)) goes on, anything else returns Ok(None)
provider_outcome(res, position, cw) ==
  IF res.kind = "Some" THEN ResponseList(res.value, position, cw)
  ELSE ResponseNone

\* "Ab a": an upper-case word, a blank, a one-letter word; U+00C9 "a": a
\* word whose upper-case first letter is not ASCII
DocumentMap ==
  [uri \in {"file:///test.txt"} |-> << <<65, 98, 32, 97>>, <<201, 97>> >>]

Uris == {"file:///test.txt", "file:///nonexistent.txt"}

\* every cursor position of the first line, one past its end, the end of the
\* second line, and a line past the end of the document
Positions ==
  [line : {0}, character : 0..5] \cup [line : {1}, character : {2}]
    \cup [line : {2}, character : {0}]

\* the last request: whether its document was open, the word found before
\* the cursor, and the response
NotAsked == [kind |-> "NotAsked", value |-> <<>>]

NoCompletion ==
  [called |-> FALSE, known |-> FALSE, word |-> NoWord,
   provider_result |-> NotAsked, response |-> NoResponse]

\* CompletionHandler::on_completion
OnCompletion(uri, position, task_failed) ==
  LET cw == get_current_word_and_start(DocumentMap[uri], position)
      sqlite == is_sqlite(provider.dictionary)
      out == IF sqlite
             THEN sqlite_find_words_by_prefix(provider, cw.word, task_failed)
             ELSE [result |-> json_find_words_by_prefix(provider, cw.word)]
      Respond(known, w, res, r) ==
        completion' = [called |-> TRUE, known |-> known, word |-> w,
                       provider_result |-> res, response |-> r]
  IN /\ IF uri \notin DOMAIN DocumentMap
        THEN Respond(FALSE, NoWord, NotAsked, ResponseNone) /\ UNCHANGED last_call
        ELSE IF ~cw.some
        THEN Respond(TRUE, cw, NotAsked, ResponseNone) /\ UNCHANGED last_call
        ELSE /\ last_call' = IF sqlite THEN CallRecord(cw.word, out)
                             ELSE last_call
             /\ Respond(TRUE, cw, out.result,
                        provider_outcome(out.result, position, cw))
     /\ UNCHANGED <<provider, extracted, request, document_guard, sortVars>>
     /\ UNCHANGED <<trieVars, fuzzyVars>>

----------------------------------------------------------------------------
(* tests/completion.rs: concurrent on_completion requests on one document *)

\* the words of MockDictionaryProvider: "test", "testing"
MockWords == << <<116, 101, 115, 116>>, <<116, 101, 115, 116, 105, 110, 103>> >>

\* MockDictionaryProvider::find_words_by_prefix
mock_find_words_by_prefix(prefix) == [kind |-> "Some", value |-> MockWords]

LoadUri == "file:///test.txt"

\* one request per cursor position of the first line of the document
Requests == 0..Len(DocumentMap[LoadUri][1])

PositionOf(r) == [line |-> 0, character |-> r]

Unlocked == [held |-> FALSE, by |-> 0]
LockedBy(r) == [held |-> TRUE, by |-> r]

NewRequest == [pc |-> "start", word |-> NoWord, response |-> NoResponse]

LoadInit ==
  /\ request = [r \in Requests |-> NewRequest]
  /\ document_guard = Unlocked

\* completion.rs:97  self.document_map.lock().await resolves when the mutex
\* is free
ReqLock(r) ==
  /\ request[r].pc = "start"
  /\ document_guard = Unlocked
  /\ document_guard' = LockedBy(r)
  /\ request' = [request EXCEPT ![r].pc = "locked"]
  /\ UNCHANGED <<provider, last_call, completion, extracted, sortVars>>
  /\ UNCHANGED <<trieVars, fuzzyVars>>

\* lines 97-106: the content is cloned, the guard dropped, and the word before
\* the cursor looked for; without a word the request returns Ok(None)
ReqRead(r) ==
  /\ request[r].pc = "locked"
  /\ document_guard = LockedBy(r)
  /\ document_guard' = Unlocked
  /\ LET cw == get_current_word_and_start(DocumentMap[LoadUri], PositionOf(r))
     IN request' = [request EXCEPT ![r] =
                      IF cw.some
                      THEN [pc |-> "find", word |-> cw, response |-> NoResponse]
                      ELSE [pc |-> "done", word |-> cw, response |-> ResponseNone]]
  /\ UNCHANGED <<provider, last_call, completion, extracted, sortVars>>
  /\ UNCHANGED <<trieVars, fuzzyVars>>

\* lines 110-200: the provider answers and the items are built
ReqFind(r) ==
  /\ request[r].pc = "find"
  /\ request' = [request EXCEPT ![r].pc = "done",
                   ![r].response =
                     provider_outcome(mock_find_words_by_prefix(request[r].word.word),
                                      PositionOf(r), request[r].word)]
  /\ UNCHANGED <<provider, last_call, completion, extracted, document_guard, sortVars>>
  /\ UNCHANGED <<trieVars, fuzzyVars>>

----------------------------------------------------------------------------
(* fuzzy.rs: FuzzyMatcher, the candidate generator and its two cache tiers *)

FuzzyMaxPrefixLen == 20   \* fuzzy.rs:78   prefix.len() > 20
TakeLimit == 1000         \* fuzzy.rs:176  take(1000)
WriteBackMinLen == 1      \* fuzzy.rs:178  prefix.len() > 1
WriteBackMaxLen == 5      \* fuzzy.rs:179  prefix.len() <= 5
WriteBackMaxSize == 500   \* fuzzy.rs:179  result.len() < 500

\* lines 187-209 and 211-223: the word followed by one letter a..z
generate_prefix_completions_ascii(w) == {Append(w, c) : c \in Alphabet}

generate_prefix_completions_unicode(w) == {Append(w, c) : c \in Alphabet}

\* len / 2 without .max(1): the first character of a one-character word can
\* be edited
modify_start_without_max(n) == n \div 2

\* (len / 2).max(1), a 0-based index
modify_start(n) == IF n \div 2 > 1 THEN n \div 2 ELSE 1

\* lines 249-283: a letter inserted before each 0-based index 0..=len
generate_insertions_ascii_parallel(w) ==
  {SubSeq(w, 1, i) \o <<c>> \o SubSeq(w, i + 1, Len(w)) :
     i \in 0..Len(w), c \in Alphabet}

\* lines 285-319: another letter at each index modify_start..len-1
generate_substitutions_ascii_parallel(w) ==
  {[w EXCEPT ![x[1] + 1] = x[2]] :
     x \in {y \in (modify_start(Len(w))..(Len(w) - 1)) \X Alphabet :
              y[2] # w[y[1] + 1]}}

\* lines 321-348: the character at each index modify_start..len-1 removed;
\* an empty outcome is dropped
generate_deletions_ascii_parallel(w) ==
  {SubSeq(w, 1, i) \o SubSeq(w, i + 2, Len(w)) :
     i \in modify_start(Len(w))..(Len(w) - 1)} \ {<<>>}

\* lines 225-247
generate_distance_1_ascii_parallel(w) ==
  generate_insertions_ascii_parallel(w)
    \cup generate_substitutions_ascii_parallel(w)
    \cup generate_deletions_ascii_parallel(w)

\* lines 350-393: the same three edits on the characters of the word
generate_distance_1_unicode_modified(w) ==
  {SubSeq(w, 1, i) \o <<c>> \o SubSeq(w, i + 1, Len(w)) :
     i \in 0..Len(w), c \in Alphabet}
  \cup {[w EXCEPT ![x[1] + 1] = x[2]] :
          x \in {y \in (modify_start(Len(w))..(Len(w) - 1)) \X Alphabet :
                   y[2] # w[y[1] + 1]}}
  \cup {SubSeq(w, 1, i) \o SubSeq(w, i + 2, Len(w)) :
          i \in modify_start(Len(w))..(Len(w) - 1)}

\* HashSet::insert / HashSet::extend on the set the result is collected in;
\* the collection is a bag here so that its copies can be counted
vec_extend(bag, more) == bag (+) SetToBag(more)

hash_set_extend(bag, more) == bag (+) SetToBag(more \ BagToSet(bag))

\* a result set that starts empty
result_set_without_prefix(prefix) == EmptyBag

\* lines 96-97
result_set_with_prefix(prefix) == hash_set_extend(EmptyBag, {prefix})

\* lines 96-117: the prefix, its completions and its distance-1 edits
distance_1_pass(prefix) ==
  LET first == result_set_with_prefix(prefix)
      completed == hash_set_extend(first,
                     IF is_ascii(prefix)
                     THEN generate_prefix_completions_ascii(prefix)
                     ELSE generate_prefix_completions_unicode(prefix))
  IN hash_set_extend(completed,
       IF is_ascii(prefix)
       THEN generate_distance_1_ascii_parallel(prefix)
       ELSE generate_distance_1_unicode_modified(prefix))

\* line 128: (20.0 * (1.0 - (prefix.len() as f32) / 20.0)) as usize.  In f32
\* the product is 7.9999995 for 12, 3.9999998 for 16 and 2.9999995 for 17,
\* which the cast cuts to 7, 3 and 2; it is 20 - len for the other lengths
\* up to 20 and negative (cast to 0) above.
base_take(len) ==
  IF len > 20 THEN 0
  ELSE IF len \in {12, 16, 17} THEN 19 - len
  ELSE 20 - len

\* lines 125-130: the words of the result set that pass the filter
base_pool(prefix) ==
  {w \in BagToSet(distance_1_pass(prefix)) :
     starts_with(w, prefix) \/ starts_with(w, <<prefix[1]>>)}

\* lines 125-130: iter().filter(..).take(n) takes the first n words of the
\* pool in the iteration order of the HashSet, which is any order
BaseChoices(prefix, include_distance_2) ==
  IF ~include_distance_2 \/ prefix = <<>> \/ str_len(prefix) > FuzzyMaxPrefixLen
  THEN {{}}
  ELSE LET pool == base_pool(prefix)
           n == base_take(str_len(prefix))
       IN IF n = 0 THEN {{}}
          ELSE IF n = 1 /\ pool # {} THEN {{w} : w \in pool}
          ELSE IF Cardinality(pool) <= n THEN {pool}
          ELSE {T \in SUBSET pool : Cardinality(T) = n}

\* lines 132-159: the completions of every base word
distance_2_pass(base_words) ==
  UNION {IF is_ascii(b) THEN generate_prefix_completions_ascii(b)
         ELSE generate_prefix_completions_unicode(b) : b \in base_words}

\* lines 165-174: the sort key: words that start with the prefix first, then
\* by length in bytes
SortKey(w, prefix) == <<IF starts_with(w, prefix) THEN 0 ELSE 1, str_len(w)>>

KeyLeq(a, b) == a[1] < b[1] \/ (a[1] = b[1] /\ a[2] <= b[2])

\* lines 162-176: the list is the result set sorted by SortKey, cut to its
\* first 1000 entries; words with equal keys are in the order of the HashSet,
\* so a cut keeps any sub-bag of 1000 entries none of which sorts after a
\* dropped one
IsTruncation(kept, all, prefix) ==
  /\ kept \sqsubseteq all
  /\ BagCardinality(kept) = TakeLimit
  /\ \A w \in BagToSet(kept) : \A v \in BagToSet(all (-) kept) :
       KeyLeq(SortKey(w, prefix), SortKey(v, prefix))

sort_and_take(all, prefix) ==
  IF BagCardinality(all) <= TakeLimit THEN all
  ELSE CHOOSE kept \in SubBag(all) : IsTruncation(kept, all, prefix)

\* a closure that compares the lengths only
ordering_by_length(a_starts, b_starts, a_len, b_len) ==
  IF a_len < b_len THEN "Less"
  ELSE IF a_len > b_len THEN "Greater"
  ELSE "Equal"

\* lines 166-173: the closure given to sort_by, on a_starts, b_starts and
\* the lengths in bytes of a and b
ordering(a_starts, b_starts, a_len, b_len) ==
  IF a_starts /\ ~b_starts THEN "Less"
  ELSE IF ~a_starts /\ b_starts THEN "Greater"
  ELSE IF a_len < b_len THEN "Less"
  ELSE IF a_len > b_len THEN "Greater"
  ELSE "Equal"

\* what the closure reads of a string
SortRead(w, prefix) == <<starts_with(w, prefix), str_len(w)>>

\* the keys in the order of the closure: first a key to which none compares
\* Less, then the others without the keys that compare Equal to it
RECURSIVE keys_in_order(_)
keys_in_order(K) ==
  IF K = {} THEN <<>>
  ELSE LET k == CHOOSE a \in K :
                  \A b \in K : ordering(a[1], b[1], a[2], b[2]) # "Greater"
       IN <<k>> \o keys_in_order({b \in K :
                                    ordering(k[1], b[1], k[2], b[2]) # "Equal"})

RECURSIVE concat_from(_, _)
concat_from(parts, i) ==
  IF i > Len(parts) THEN <<>> ELSE parts[i] \o concat_from(parts, i + 1)

\* line 165: Vec::sort_by, a stable sort: the strings that compare Equal
\* stay in the order they had, and a string is behind every string that
\* compares Less to it
sort_by(v, prefix) ==
  LET keys == keys_in_order({SortRead(v[i], prefix) : i \in 1..Len(v)})
      EqualTo(k) ==
        LET Test(w) ==
              LET r == SortRead(w, prefix)
              IN ordering(r[1], k[1], r[2], k[2]) = "Equal"
        IN SelectSeq(v, Test)
  IN concat_from([i \in 1..Len(keys) |-> EqualTo(keys[i])], 1)

\* the elements of a HashSet in an order of iteration, which is bucket after
\* bucket of its table: the order is not specified; two orders stand for
\* it, the buckets taken from the first to the last and from the last to
\* the first
RECURSIVE SetToSeq(_)
SetToSeq(S) ==
  IF S = {} THEN <<>>
  ELSE LET x == CHOOSE y \in S : TRUE IN <<x>> \o SetToSeq(S \ {x})

bucket_of(w) ==
  IF w = <<>> THEN 0 ELSE (w[1] + w[Len(w)] + Len(w)) % Buckets

IterationOrders == {"forward", "backward"}

RECURSIVE iter_from(_, _, _)
iter_from(S, order, k) ==
  IF k = Buckets THEN <<>>
  ELSE LET h == IF order = "forward" THEN k ELSE Buckets - 1 - k
       IN SetToSeq({w \in S : bucket_of(w) = h}) \o iter_from(S, order, k + 1)

hash_set_iter(S, order) == iter_from(S, order, 0)

\* lines 125-130: the base words are the first of the iteration that pass
\* the filter
base_words_in_order(prefix, order) ==
  LET it == hash_set_iter(BagToSet(distance_1_pass(prefix)), order)
      Passes(w) == starts_with(w, prefix) \/ starts_with(w, <<prefix[1]>>)
  IN Range(Take(SelectSeq(it, Passes), base_take(str_len(prefix))))

\* a generator that returns early for the oversized prefix only
returns_early_when_oversized(prefix) == str_len(prefix) > FuzzyMaxPrefixLen

\* a generator that returns early for the empty prefix only
returns_early_when_empty(prefix) == prefix = <<>>

\* lines 74-80: the returns that come before the generation and before the
\* write to CANDIDATE_CACHE
returns_early(prefix) ==
  prefix = <<>> \/ str_len(prefix) > FuzzyMaxPrefixLen

\* FuzzyMatcher::generate_candidates on a miss of the hot tier: the returned
\* list as a bag, for the base words the second pass took
generate_candidates(prefix, include_distance_2, base_words) ==
  IF returns_early(prefix)
  THEN IF prefix = <<>> THEN SetToBag({<<c>> : c \in Alphabet}) ELSE EmptyBag
  ELSE LET first == distance_1_pass(prefix)
           all == IF include_distance_2
                  THEN hash_set_extend(first, distance_2_pass(base_words))
                  ELSE first
       IN sort_and_take(all, prefix)

\* lines 74-176: the list generate_candidates returns on a miss of the hot
\* tier, for the order in which line 125 and the order in which line 162
\* iterate over the result set
generate_candidates_list(prefix, include_distance_2, order_125, order_162) ==
  IF returns_early(prefix)
  THEN IF prefix = <<>> THEN [i \in 1..26 |-> <<96 + i>>] ELSE <<>>
  ELSE LET first == distance_1_pass(prefix)
           all == IF include_distance_2
                  THEN hash_set_extend(first,
                         distance_2_pass(base_words_in_order(prefix, order_125)))
                  ELSE first
       IN Take(sort_by(hash_set_iter(BagToSet(all), order_162), prefix), TakeLimit)

\* the prefixes of the model: empty, one to three letters, 19 bytes in 13
\* characters (six times U+00E9, then "abcdefg"), 20 letters, 21 letters, and
\* 21 bytes in 7 characters (U+4E2D)
P19 == <<233, 233, 233, 233, 233, 233, 97, 98, 99, 100, 101, 102, 103>>
P20 == [i \in 1..20 |-> 96 + i]
CJK7 == [i \in 1..7 |-> 20013]

FuzzyPrefixes == {<<>>, w_a, w_ab, w_abc, P19, P20, LongPrefix, CJK7}

\* the arguments of the model: with include_distance_2 the prefixes are those
\* for which at most one base word is taken, so that every choice of the base
\* words is a call of its own
FuzzyArguments ==
  {y \in FuzzyPrefixes \X BOOLEAN :
     y[2] => (y[1] = <<>> \/ base_take(str_len(y[1])) <= 1)}

\* a call: its arguments and the base words its second pass took
FuzzyCall(prefix, include_distance_2, base_words) ==
  [prefix |-> prefix, include_distance_2 |-> include_distance_2,
   base_words |-> base_words]

FuzzyCalls ==
  UNION {{FuzzyCall(x[1], x[2], b) : b \in BaseChoices(x[1], x[2])} :
           x \in FuzzyArguments}

\* lines 125-130 when the iteration of the HashSet yields the shortest words
\* of the pool first
RECURSIVE shortest_first(_, _)
shortest_first(pool, n) ==
  IF n = 0 \/ pool = {} THEN {}
  ELSE LET w == CHOOSE x \in pool : \A y \in pool : str_len(x) <= str_len(y)
       IN {w} \cup shortest_first(pool \ {w}, n - 1)

\* a prefix of six bytes in three characters (three times U+00E9): longer
\* than WriteBackMaxLen, so that line 179 looks at the size of the result
RecountPrefix == <<233, 233, 233>>

\* two of the sets of base words lines 125-130 can take for RecountPrefix:
\* the first of the pool in a hash order, and the shortest of the pool
RecountBases ==
  {base_words_in_order(RecountPrefix, "forward"),
   shortest_first(base_pool(RecountPrefix), base_take(str_len(RecountPrefix)))}

\* calls on RecountPrefix with and without the second pass, and calls on
\* short prefixes without it
RecountCalls ==
  {FuzzyCall(RecountPrefix, TRUE, b) : b \in RecountBases}
    \cup {FuzzyCall(x, FALSE, {}) : x \in {RecountPrefix, w_ab, w_abc, w_b}}

ModelCalls == FuzzyCalls \cup RecountCalls

\* what each call of the model returns
ResultTable ==
  [call \in ModelCalls |->
     generate_candidates(call.prefix, call.include_distance_2, call.base_words)]

\* lines 178-182: the result is written to CANDIDATE_CACHE
written_back(prefix, result) ==
  /\ result # EmptyBag
  /\ str_len(prefix) > WriteBackMinLen
  /\ \/ str_len(prefix) <= WriteBackMaxLen
     \/ BagCardinality(result) < WriteBackMaxSize

\* the calls of the model whose result is written back
WrittenBack ==
  {call \in ModelCalls :
     ~returns_early(call.prefix) /\ written_back(call.prefix, ResultTable[call])}

\* lines 14-19: the key of both tiers (the hash of the two arguments)
create_cache_key(prefix, include_distance_2) == <<prefix, include_distance_2>>

\* CANDIDATE_CACHE is a set of entries, one per key; the value of an entry
\* is the call that computed it
ColdEntry(key, call, count) ==
  [key |-> key, value |-> call, access_count |-> count]

\* lines 61-62: get and increment_access
increment_access(cold, key) ==
  {IF e.key = key THEN [e EXCEPT !.access_count = @ + 1] ELSE e : e \in cold}

\* line 180: insert replaces the entry of the key by CacheEntry::new
cold_insert(cold, key, call) ==
  {e \in cold : e.key # key} \cup {ColdEntry(key, call, 1)}

\* line 56: LruCache::get makes the entry the most recently used
hot_get(hot, key) ==
  LET i == CHOOSE j \in CacheIndex(hot, key) : TRUE
  IN Append(Remove(hot, i), hot[i])

(* JsonDictionaryProvider (dictionary_data.rs): the dictionary is loaded at
   construction when its file can be read and parsed, and otherwise by the
   first call that finds dictionary_cache empty *)

\* the async tasks that call the JSON provider
JsonTasks == {"j1", "j2"}

JsonOps == {"get_meaning", "find_words_by_prefix"}

JsonIdle == [pc |-> "idle", op |-> "none", result |-> "none"]

\* lines 683-703: JsonDictionaryProvider::new(dictionary_path, freq_path).
\* path: dictionary_path is Some; readable: the file at the path can be read
\* and parsed.  dictionary_cache is Some when both hold.  guard is the task
\* that holds a MutexGuard of dictionary_cache.
JsonNew(path, readable) ==
  [dictionary_path |-> path,
   readable |-> readable,
   dictionary_cache |-> path /\ readable,
   guard |-> "none",
   call |-> [t \in JsonTasks |-> JsonIdle]]

\* lines 839-841, 867-868: a task calls get_meaning or find_words_by_prefix
\* and reaches dictionary_cache.lock().await
JsonCall(t, op) ==
  /\ json.call[t].pc = "idle"
  /\ json' = [json EXCEPT !.call[t] =
                [pc |-> "lock_match", op |-> op, result |-> "none"]]
  /\ UNCHANGED <<trieVars, fuzzyVars>>
  /\ UNCHANGED <<provider, last_call, completion, extracted, request,
                 document_guard, listed, edit>>

\* lines 841-850, 868-877: tokio's Mutex grants the lock to a task that waits
\* for it when no guard is alive, and the task runs to its next await or to
\* its return.  The guard taken in the scrutinee of the match is a temporary
\* of the let statement: it is alive in both arms and dropped at the end of
\* the statement or when `?` returns.  In the None arm the task reaches the
\* second dictionary_cache.lock().await with that guard alive.
JsonLock(t) ==
  LET c == json.call[t]
      Finish(r) == [c EXCEPT !.pc = "done", !.result = r]
  IN /\ c.pc \in {"lock_match", "lock_store"}
     /\ json.guard = "none"
     /\ json' =
          IF c.pc = "lock_store"
          THEN [json EXCEPT !.dictionary_cache = TRUE, !.guard = "none",
                            !.call[t] = Finish("Ok")]
          ELSE IF json.dictionary_cache
          THEN [json EXCEPT !.call[t] = Finish("Ok")]
          ELSE IF ~json.dictionary_path \/ ~json.readable
          THEN [json EXCEPT !.call[t] = Finish("Err")]
          ELSE [json EXCEPT !.guard = t, !.call[t].pc = "lock_store"]
     /\ UNCHANGED <<trieVars, fuzzyVars>>
     /\ UNCHANGED <<provider, last_call, completion, extracted, request,
                    document_guard, listed, edit>>

\* the caller takes the result of the call
JsonReturn(t) ==
  /\ json.call[t].pc = "done"
  /\ json' = [json EXCEPT !.call[t] = JsonIdle]
  /\ UNCHANGED <<trieVars, fuzzyVars>>
  /\ UNCHANGED <<provider, last_call, completion, extracted, request,
                 document_guard, listed, edit>>

\* the dictionary file is written or removed by another process
JsonFileChange ==
  /\ json' = [json EXCEPT !.readable = ~@]
  /\ UNCHANGED <<trieVars, fuzzyVars>>
  /\ UNCHANGED <<provider, last_call, completion, extracted, request,
                 document_guard, listed, edit>>

(* generate_distance_1_ascii_parallel (fuzzy.rs:225-348) step by step: the
   three edits run one after the other; within an edit rayon hands every
   index of the range to one of its threads, in any order and in any split
   into chunks, and the closure of an index runs without interruption on the
   thread-local BUFFER_POOL of that thread *)

\* the threads of the rayon pool
EditThreads == {"r1", "r2"}

EditPhases == <<"insertions", "substitutions", "deletions", "done">>

\* a buffer that kept the bytes of an earlier call
StaleBuffer == <<120, 121, 122, 120, 121, 122>>

\* line 42: the BUFFER_POOL of a thread before the call: empty, or holding
\* one buffer of an earlier call
StalePools == {<<>>, <<StaleBuffer>>}

\* Vec::clear left out: the buffer keeps its old bytes
buffer_left_as_is(buffer) == buffer

\* lines 263, 301, 335: buffer.clear()
buffer_clear(buffer) == <<>>

\* String::from_utf8 on bytes below 128 is Ok with the same characters; the
\* buffers of the ASCII path hold no other bytes
from_utf8_ok(buffer) == \A k \in 1..Len(buffer) : buffer[k] < 128

\* lines 253, 290, 325: the 0-based indices an edit runs over
edit_range(phase, word_len) ==
  IF phase = "insertions" THEN 0..word_len
  ELSE IF phase \in {"substitutions", "deletions"}
  THEN modify_start(word_len)..(word_len - 1)
  ELSE {}

NoEdit ==
  [prefix |-> <<>>, phase |-> 4, todo |-> {},
   pool |-> [th \in EditThreads |-> <<>>],
   collected |-> {}, result_set |-> {}, reused |-> FALSE]

\* the call starts: the insertions are to be generated
NewEdit(prefix, pools) ==
  [NoEdit EXCEPT !.prefix = prefix, !.phase = 1,
                 !.todo = edit_range("insertions", Len(prefix)),
                 !.pool = pools]

\* lines 257-281, 294-317, 328-343: the closure of index i on thread th.
\* buffer is what pop() or Vec::with_capacity gave, cleared; last is what the
\* buffer holds when it is pushed back.
EditIndex(th, i) ==
  LET bytes == edit.prefix
      phase == EditPhases[edit.phase]
      old == edit.pool[th]
      popped == IF old = <<>> THEN <<>> ELSE old[Len(old)]
      rest == IF old = <<>> THEN <<>> ELSE SubSeq(old, 1, Len(old) - 1)
      cleared == buffer_clear(popped)
      buffer ==
        IF phase = "insertions"
        THEN cleared \o SubSeq(bytes, 1, i) \o <<0>>
               \o SubSeq(bytes, i + 1, Len(bytes))
        ELSE IF phase = "substitutions" THEN cleared \o bytes
        ELSE cleared \o SubSeq(bytes, 1, i) \o SubSeq(bytes, i + 2, Len(bytes))
      letters ==
        IF phase = "insertions" THEN Alphabet
        ELSE IF phase = "substitutions" THEN Alphabet \ {bytes[i + 1]}
        ELSE {}
      written == {[buffer EXCEPT ![i + 1] = c] : c \in letters}
      local_results ==
        IF phase = "deletions"
        THEN {IF from_utf8_ok(buffer) THEN buffer ELSE <<>>}
        ELSE {b \in written : from_utf8_ok(b)}
      last == IF letters = {} THEN buffer
              ELSE [buffer EXCEPT ![i + 1] =
                      CHOOSE c \in letters : \A d \in letters : d <= c]
  IN /\ edit.phase \in 1..3
     /\ i \in edit.todo
     /\ edit' = [edit EXCEPT !.todo = @ \ {i},
                             !.pool[th] = Append(rest, last),
                             !.collected = @ \cup local_results,
                             !.reused = @ \/ popped # <<>>]
     /\ UNCHANGED <<trieVars, fuzzyVars>>
     /\ UNCHANGED <<provider, last_call, completion, extracted, request,
                    document_guard, listed, json>>

\* lines 235-244, 282, 318, 346-347: collect() of an edit whose indices are
\* all done (the deletions without the empty string), result_set.extend, and
\* the next edit starts
EditCollect ==
  LET phase == EditPhases[edit.phase]
      kept == IF phase = "deletions" THEN edit.collected \ {<<>>}
              ELSE edit.collected
  IN /\ edit.phase \in 1..3
     /\ edit.todo = {}
     /\ edit' = [edit EXCEPT !.phase = @ + 1,
                             !.todo = edit_range(EditPhases[edit.phase + 1],
                                                 Len(edit.prefix)),
                             !.collected = {},
                             !.result_set = @ \cup kept]
     /\ UNCHANGED <<trieVars, fuzzyVars>>
     /\ UNCHANGED <<provider, last_call, completion, extracted, request,
                    document_guard, listed, json>>

NotListed ==
  [called |-> FALSE, prefix |-> <<>>, include_distance_2 |-> FALSE,
   order_125 |-> "forward", order_162 |-> "forward", list |-> <<>>]

\* one call of generate_candidates, with the list it returns
ListCandidates(prefix, include_distance_2, order_125, order_162) ==
  /\ listed' = [called |-> TRUE, prefix |-> prefix,
                include_distance_2 |-> include_distance_2,
                order_125 |-> order_125, order_162 |-> order_162,
                list |-> generate_candidates_list(prefix, include_distance_2,
                                                  order_125, order_162)]
  /\ UNCHANGED <<provider, last_call, completion, extracted, request,
                 document_guard, json, edit>>
  /\ UNCHANGED <<trieVars, fuzzyVars>>

NotGenerated ==
  [called |-> FALSE, hot |-> FALSE, prefix |-> <<>>,
   include_distance_2 |-> FALSE, base_words |-> {}]

\* the async tasks that run generate_candidates
GenTasks == {"g1", "g2"}

IdleTask ==
  [pc |-> "idle", prefix |-> <<>>, include_distance_2 |-> FALSE,
   base_words |-> {}, futures |-> 0, hot |-> FALSE, held |-> {}]

FuzzyInit ==
  /\ HOT_CACHE = <<>>
  /\ CANDIDATE_CACHE = {}
  /\ generated = NotGenerated
  /\ task = [t \in GenTasks |-> IdleTask]

\* FuzzyMatcher::generate_candidates(prefix, include_distance_2), one call
\* from its first to its last line.  base_words is what lines 125-130 took.
\* The spawned tasks are taken to join: a JoinError leaves the distance-1
\* edits or an expansion out (lines 111, 155).
GenerateCandidates(prefix, include_distance_2, base_words) ==
  LET key == create_cache_key(prefix, include_distance_2)
      call == FuzzyCall(prefix, include_distance_2, base_words)
      Answer(hot, c) ==
        generated' = [called |-> TRUE, hot |-> hot, prefix |-> c.prefix,
                      include_distance_2 |-> c.include_distance_2,
                      base_words |-> c.base_words]
  IN /\ call \in ModelCalls
     /\ IF CacheContains(HOT_CACHE, key)
        THEN /\ HOT_CACHE' = hot_get(HOT_CACHE, key)
             /\ Answer(TRUE, CachePeek(HOT_CACHE, key))
             /\ UNCHANGED CANDIDATE_CACHE
        ELSE /\ UNCHANGED HOT_CACHE
             /\ Answer(FALSE, call)
             /\ CANDIDATE_CACHE' =
                  IF call \in WrittenBack
                  THEN cold_insert(increment_access(CANDIDATE_CACHE, key),
                                   key, call)
                  ELSE increment_access(CANDIDATE_CACHE, key)
     /\ UNCHANGED task
     /\ UNCHANGED <<trieVars, facadeVars>>

(* generate_candidates step by step: a task runs from one suspension point
   (.await) to the next; a lock is held from the line that takes it to the
   end of the scope of its guard *)

\* the positions at which a task is suspended
AwaitLabels == {"await_105", "await_110", "await_119", "await_154", "await_157"}

Holds(lock) == {t \in GenTasks : lock \in task[t].held}

TaskKey(t) == create_cache_key(task[t].prefix, task[t].include_distance_2)

\* lines 51-55: the call starts and takes the mutex of the hot tier
GenStart(t, prefix, include_distance_2) ==
  /\ task[t].pc = "idle"
  /\ Holds("HOT_CACHE") = {}
  /\ task' = [task EXCEPT ![t] =
                [IdleTask EXCEPT !.pc = "hot", !.prefix = prefix,
                                 !.include_distance_2 = include_distance_2,
                                 !.held = {"HOT_CACHE"}]]
  /\ UNCHANGED <<HOT_CACHE, CANDIDATE_CACHE, generated>>
  /\ UNCHANGED <<trieVars, facadeVars>>

\* lines 56-59: the lookup in the hot tier; the guard goes at the end of the
\* block or at the return inside it
GenHotGet(t) ==
  /\ task[t].pc = "hot"
  /\ IF CacheContains(HOT_CACHE, TaskKey(t))
     THEN /\ HOT_CACHE' = hot_get(HOT_CACHE, TaskKey(t))
          /\ task' = [task EXCEPT
                        ![t].pc = "ret", ![t].hot = TRUE, ![t].held = {},
                        ![t].base_words =
                           CachePeek(HOT_CACHE, TaskKey(t)).base_words]
     ELSE /\ UNCHANGED HOT_CACHE
          /\ task' = [task EXCEPT ![t].pc = "cold", ![t].held = {}]
  /\ UNCHANGED <<CANDIDATE_CACHE, generated>>
  /\ UNCHANGED <<trieVars, facadeVars>>

\* line 61: CANDIDATE_CACHE.get: a hit gives a guard on the entry
GenColdGet(t) ==
  /\ task[t].pc = "cold"
  /\ task' = IF \E e \in CANDIDATE_CACHE : e.key = TaskKey(t)
             THEN [task EXCEPT ![t].pc = "cold_hit",
                               ![t].held = {"CANDIDATE_CACHE"}]
             ELSE [task EXCEPT ![t].pc = "body"]
  /\ UNCHANGED <<HOT_CACHE, CANDIDATE_CACHE, generated>>
  /\ UNCHANGED <<trieVars, facadeVars>>

\* a hit whose guard on the entry outlives the if-let block
GenColdHitKeepsGuard(t) ==
  /\ task[t].pc = "cold_hit"
  /\ CANDIDATE_CACHE' = increment_access(CANDIDATE_CACHE, TaskKey(t))
  /\ task' = [task EXCEPT ![t].pc = "body"]
  /\ UNCHANGED <<HOT_CACHE, generated>>
  /\ UNCHANGED <<trieVars, facadeVars>>

\* lines 62-69: increment_access, then the guard goes with the block
GenColdHit(t) ==
  /\ task[t].pc = "cold_hit"
  /\ CANDIDATE_CACHE' = increment_access(CANDIDATE_CACHE, TaskKey(t))
  /\ task' = [task EXCEPT ![t].pc = "body", ![t].held = {}]
  /\ UNCHANGED <<HOT_CACHE, generated>>
  /\ UNCHANGED <<trieVars, facadeVars>>

\* lines 74-105: the early returns; else the prefix and its completions go
\* into the result set and the task yields at consume_budget().await
GenBody(t) ==
  /\ task[t].pc = "body"
  /\ task' = [task EXCEPT ![t].pc = IF returns_early(task[t].prefix)
                                    THEN "ret" ELSE "await_105"]
  /\ UNCHANGED <<HOT_CACHE, CANDIDATE_CACHE, generated>>
  /\ UNCHANGED <<trieVars, facadeVars>>

\* lines 107-119: resumed; an ASCII prefix awaits the blocking task of the
\* distance-1 edits, another prefix is edited in place and the task yields
\* at the second consume_budget().await
GenEdits(t) ==
  /\ task[t].pc = "await_105"
  /\ task' = [task EXCEPT ![t].pc = IF is_ascii(task[t].prefix)
                                    THEN "await_110" ELSE "await_119"]
  /\ UNCHANGED <<HOT_CACHE, CANDIDATE_CACHE, generated>>
  /\ UNCHANGED <<trieVars, facadeVars>>

\* lines 110-119: the blocking task has joined, its edits are merged
GenJoin(t) ==
  /\ task[t].pc = "await_110"
  /\ task' = [task EXCEPT ![t].pc = "await_119"]
  /\ UNCHANGED <<HOT_CACHE, CANDIDATE_CACHE, generated>>
  /\ UNCHANGED <<trieVars, facadeVars>>

\* lines 162-184: sort, cut, the write to CANDIDATE_CACHE (DashMap::insert
\* takes and gives back the lock of the shard inside the call), return
GenFinish(t, base_words) ==
  LET call == FuzzyCall(task[t].prefix, task[t].include_distance_2, base_words)
  IN /\ call \in WrittenBack => Holds("CANDIDATE_CACHE") = {}
     /\ CANDIDATE_CACHE' = IF call \in WrittenBack
                           THEN cold_insert(CANDIDATE_CACHE, TaskKey(t), call)
                           ELSE CANDIDATE_CACHE
     /\ task' = [task EXCEPT ![t].pc = "ret", ![t].base_words = base_words]

\* lines 122-152: resumed; the second pass takes its base words and spawns a
\* blocking task per chunk of five; without a chunk the call finishes
GenSecondPass(t, base_words) ==
  /\ task[t].pc = "await_119"
  /\ FuzzyCall(task[t].prefix, task[t].include_distance_2, base_words)
       \in FuzzyCalls
  /\ IF base_words = {}
     THEN GenFinish(t, base_words)
     ELSE /\ task' = [task EXCEPT
                        ![t].pc = "await_154", ![t].base_words = base_words,
                        ![t].futures = (Cardinality(base_words) + 4) \div 5]
          /\ UNCHANGED CANDIDATE_CACHE
  /\ UNCHANGED <<HOT_CACHE, generated>>
  /\ UNCHANGED <<trieVars, facadeVars>>

\* lines 153-156: a future has been awaited, its candidates are merged; the
\* task yields at consume_budget().await
GenFuture(t) ==
  /\ task[t].pc = "await_154"
  /\ task' = [task EXCEPT ![t].pc = "await_157", ![t].futures = @ - 1]
  /\ UNCHANGED <<HOT_CACHE, CANDIDATE_CACHE, generated>>
  /\ UNCHANGED <<trieVars, facadeVars>>

\* lines 157-184: resumed; the next future, or the end of the call
GenLoop(t) ==
  /\ task[t].pc = "await_157"
  /\ IF task[t].futures > 0
     THEN /\ task' = [task EXCEPT ![t].pc = "await_154"]
          /\ UNCHANGED CANDIDATE_CACHE
     ELSE GenFinish(t, task[t].base_words)
  /\ UNCHANGED <<HOT_CACHE, generated>>
  /\ UNCHANGED <<trieVars, facadeVars>>

\* the call has returned: the task is free for its next call
GenReturn(t) ==
  /\ task[t].pc = "ret"
  /\ task' = [task EXCEPT ![t] = IdleTask]
  /\ UNCHANGED <<HOT_CACHE, CANDIDATE_CACHE, generated>>
  /\ UNCHANGED <<trieVars, facadeVars>>

GenStep(t, arguments) ==
  \/ \E x \in arguments : GenStart(t, x[1], x[2])
  \/ GenHotGet(t)
  \/ GenColdGet(t)
  \/ GenColdHit(t)
  \/ GenBody(t)
  \/ GenEdits(t)
  \/ GenJoin(t)
  \/ \E call \in FuzzyCalls : GenSecondPass(t, call.base_words)
  \/ GenFuture(t)
  \/ GenLoop(t)
  \/ GenReturn(t)

\* the list the last call returned, as a bag
ResultOf(g) ==
  ResultTable[FuzzyCall(g.prefix, g.include_distance_2, g.base_words)]

----------------------------------------------------------------------------
(* Specifications *)

Init ==
  /\ HIGH_FREQ_TRIE = None
  /\ MID_FREQ_TRIE = None
  /\ LOW_FREQ_TRIE = None
  /\ LAST_INIT_TIME = NoTime
  /\ PREFIX_CACHE = <<>>
  /\ now = 0
  /\ pc = [p \in Procs |-> "idle"]
  /\ loc = [p \in Procs |-> IdleLoc]
  /\ provider = SomePath("freq1.db")
  /\ last_call = NoCall
  /\ completion = NoCompletion
  /\ extracted = NotExtracted
  /\ LoadInit
  /\ listed = NotListed
  /\ json = JsonNew(FALSE, FALSE)
  /\ edit = NoEdit
  /\ FuzzyInit

InitializeStepFrom(p, paths) ==
  \/ \E path \in paths : StartInit(p, path)
  \/ InitGuard(p)
  \/ InitOpen(p)
  \/ InitInstallHigh(p)
  \/ InitInstallMid(p)
  \/ InitInstallLow(p)
  \/ InitClearCache(p)
  \/ InitStamp(p)

InitializeStep(p) == InitializeStepFrom(p, Paths)

FindStep(p) ==
  \/ \E prefix \in QueryPrefixes, limit \in Limits : StartFind(p, prefix, limit)
  \/ FindCache(p)
  \/ FindHigh(p)
  \/ FindMid(p)
  \/ FindLow(p)
  \/ FindPut(p)

\* One thread (re)builds the index while another one queries it.
Next ==
  \/ InitializeStep("t1")
  \/ FindStep("t2")
  \/ \E p \in Procs : Return(p)
  \/ Tick

Spec == Init /\ [][Next]_vars

\* the frequency databases a provider of the facade is configured with
FacadePaths == Paths \cup {"freq8.db"}

\* The facade and the completion handler of one provider, beside one thread
\* that builds the trie index.
InitFacade ==
  /\ HIGH_FREQ_TRIE = None
  /\ MID_FREQ_TRIE = None
  /\ LOW_FREQ_TRIE = None
  /\ LAST_INIT_TIME = NoTime
  /\ PREFIX_CACHE = <<>>
  /\ now = 0
  /\ pc = [p \in Procs |-> "idle"]
  /\ loc = [p \in Procs |-> IdleLoc]
  /\ provider \in {NoPath} \cup {SomePath(path) : path \in FacadePaths}
                  \cup {JsonProvider("dict.json"), JsonProvider("missing.json")}
  /\ last_call = NoCall
  /\ completion = NoCompletion
  /\ extracted = NotExtracted
  /\ LoadInit
  /\ listed = NotListed
  /\ json = JsonNew(FALSE, FALSE)
  /\ edit = NoEdit
  /\ FuzzyInit

NextFacade ==
  \/ InitializeStepFrom("t1", {"freq1.db", "nodir/freq.db"})
  \/ Return("t1")
  \/ \E prefix \in FacadePrefixes, task_failed \in BOOLEAN :
       FacadeCall(prefix, task_failed)
  \/ \E uri \in Uris, position \in Positions, task_failed \in BOOLEAN :
       OnCompletion(uri, position, task_failed)

SpecFacade == InitFacade /\ [][NextFacade]_vars

\* the sources of the builds whose tiers are looked at: 3, 2 and 8 rows, a
\* row that does not parse, and a word in two rows
TierPaths == {"freq1.db", "freq2.db", "freq8.db", "badrow.db", "twice.db"}

\* One thread builds the index, again when an hour has passed.
NextTiers ==
  \/ InitializeStepFrom("t1", TierPaths)
  \/ Return("t1")
  \/ Tick

SpecTiers == Init /\ [][NextTiers]_vars

\* Two threads call initialize_global_trie concurrently.
NextBuild ==
  \/ InitializeStepFrom("t1", BuildPaths)
  \/ InitializeStepFrom("t2", BuildPaths)
  \/ \E p \in Procs : Return(p)
  \/ Tick

SpecBuild == Init /\ [][NextBuild]_vars

\* One thread builds the index, another one calls find_words_respecting_case.
NextCase ==
  \/ InitializeStepFrom("t1", {"case.db"})
  \/ \E prefix \in CaseArguments, limit \in Limits :
       RespectingCaseCall("t2", prefix, limit)
  \/ \E p \in Procs : Return(p)

SpecCase == Init /\ [][NextCase]_vars

\* Two threads query an index that initialize_global_trie("freq1.db") has
\* installed at time 0 and that is not rebuilt.
InitQuery ==
  LET built == BuildTries(OrderByFrequencyDesc(Source("freq1.db").table))
  IN /\ HIGH_FREQ_TRIE = Some(built.high)
     /\ MID_FREQ_TRIE = Some(built.mid)
     /\ LOW_FREQ_TRIE = Some(built.low)
     /\ LAST_INIT_TIME = SomeTime(0)
     /\ PREFIX_CACHE = <<>>
     /\ now = 0
     /\ pc = [p \in Procs |-> "idle"]
     /\ loc = [p \in Procs |-> IdleLoc]
     /\ provider = SomePath("freq1.db")
     /\ last_call = NoCall
     /\ completion = NoCompletion
     /\ extracted = NotExtracted
     /\ LoadInit
     /\ listed = NotListed
     /\ json = JsonNew(FALSE, FALSE)
     /\ edit = NoEdit
     /\ FuzzyInit

NextQuery ==
  \/ FindStep("t1")
  \/ FindStep("t2")
  \/ \E p \in Procs : Return(p)

SpecQuery == InitQuery /\ [][NextQuery]_vars

\* a prefix that no word of the index starts with: "x" and three letters
FillerPrefix(i) ==
  <<120, 97 + ((i \div 676) % 26), 97 + ((i \div 26) % 26), 97 + (i % 26)>>

\* the cache after a query for "a" with limit 1 and then queries for as many
\* prefixes without a match as fill it: the entry of "a" is the least
\* recently inserted one
FullCache ==
  [i \in 1..PrefixCacheCap |->
     IF i = 1 THEN [key |-> w_a, value |-> <<w_ab>>]
     ELSE [key |-> FillerPrefix(i), value |-> <<>>]]

\* Two threads query the index of "freq1.db" with the prefix cache full.
InitEvict ==
  LET built == BuildTries(OrderByFrequencyDesc(Source("freq1.db").table))
  IN /\ HIGH_FREQ_TRIE = Some(built.high)
     /\ MID_FREQ_TRIE = Some(built.mid)
     /\ LOW_FREQ_TRIE = Some(built.low)
     /\ LAST_INIT_TIME = SomeTime(0)
     /\ PREFIX_CACHE = FullCache
     /\ now = 0
     /\ pc = [p \in Procs |-> "idle"]
     /\ loc = [p \in Procs |-> IdleLoc]
     /\ provider = SomePath("freq1.db")
     /\ last_call = NoCall
     /\ completion = NoCompletion
     /\ extracted = NotExtracted
     /\ LoadInit
     /\ listed = NotListed
     /\ json = JsonNew(FALSE, FALSE)
     /\ edit = NoEdit
     /\ FuzzyInit

\* one thread asks for "a", the other for "ab"
FindStepFor(p, prefix) ==
  \/ \E limit \in Limits : StartFind(p, prefix, limit)
  \/ FindCache(p)
  \/ FindHigh(p)
  \/ FindMid(p)
  \/ FindLow(p)
  \/ FindPut(p)

NextEvict ==
  \/ FindStepFor("t1", w_a)
  \/ FindStepFor("t2", w_ab)
  \/ \E p \in Procs : Return(p)

SpecEvict == InitEvict /\ [][NextEvict]_vars

\* Two tasks in generate_candidates, interleaved at their suspension points
\* and at their lock scopes.
NextAwait ==
  \/ GenStep("g1", {<<<<>>, FALSE>>, <<w_ab, FALSE>>, <<P19, TRUE>>})
  \/ GenStep("g2", {<<w_ab, FALSE>>, <<LongPrefix, TRUE>>})

SpecAwait == Init /\ [][NextAwait]_vars

\* The same two tasks when the callers keep calling and the runtime keeps
\* running a task that can run.
SpecPromote == Init /\ [][NextAwait]_vars /\ WF_vars(NextAwait)

\* Calls of the candidate generator, one after the other.
NextFuzzy ==
  \E call \in FuzzyCalls :
    GenerateCandidates(call.prefix, call.include_distance_2, call.base_words)

\* get_current_word_and_start is called once, on any document and cursor
\* position
InitWord ==
  /\ HIGH_FREQ_TRIE = None
  /\ MID_FREQ_TRIE = None
  /\ LOW_FREQ_TRIE = None
  /\ LAST_INIT_TIME = NoTime
  /\ PREFIX_CACHE = <<>>
  /\ now = 0
  /\ pc = [p \in Procs |-> "idle"]
  /\ loc = [p \in Procs |-> IdleLoc]
  /\ provider = SomePath("freq1.db")
  /\ last_call = NoCall
  /\ completion = NoCompletion
  /\ \E content \in Contents, position \in CursorPositions :
       extracted = [NotExtracted EXCEPT !.content = content,
                                       !.position = position]
  /\ LoadInit
  /\ listed = NotListed
  /\ json = JsonNew(FALSE, FALSE)
  /\ edit = NoEdit
  /\ FuzzyInit

NextWord ==
  /\ ~extracted.called
  /\ GetCurrentWord(extracted.content, extracted.position)

SpecWord == InitWord /\ [][NextWord]_vars

\* join_all polls the requests in any order
NextLoad ==
  \E r \in Requests : ReqLock(r) \/ ReqRead(r) \/ ReqFind(r)

SpecLoad == Init /\ [][NextLoad]_vars

\* the prefixes whose lists are looked at: one to three characters, ASCII
\* and not, and the empty and the oversized prefix
SortPrefixes ==
  {<<>>, w_a, w_b, w_ab, w_abc, <<97, 233, 98>>, <<233, 97>>, LongPrefix}

\* generate_candidates is called once, on any prefix and for any order of
\* iteration of its hash set
InitSort ==
  /\ HIGH_FREQ_TRIE = None
  /\ MID_FREQ_TRIE = None
  /\ LOW_FREQ_TRIE = None
  /\ LAST_INIT_TIME = NoTime
  /\ PREFIX_CACHE = <<>>
  /\ now = 0
  /\ pc = [p \in Procs |-> "idle"]
  /\ loc = [p \in Procs |-> IdleLoc]
  /\ provider = SomePath("freq1.db")
  /\ last_call = NoCall
  /\ completion = NoCompletion
  /\ extracted = NotExtracted
  /\ LoadInit
  /\ \E prefix \in SortPrefixes, include_distance_2 \in BOOLEAN,
        order_125 \in IterationOrders, order_162 \in IterationOrders :
       listed = [NotListed EXCEPT !.prefix = prefix,
                                  !.include_distance_2 = include_distance_2,
                                  !.order_125 = order_125,
                                  !.order_162 = order_162]
  /\ json = JsonNew(FALSE, FALSE)
  /\ edit = NoEdit
  /\ FuzzyInit

NextSort ==
  /\ ~listed.called
  /\ ListCandidates(listed.prefix, listed.include_distance_2,
                    listed.order_125, listed.order_162)

SpecSort == InitSort /\ [][NextSort]_vars

SpecFuzzy == Init /\ [][NextFuzzy]_vars

\* the prefixes of the runs of generate_distance_1_ascii_parallel: ASCII, of
\* one to three bytes (chunk_size 1), four bytes (chunk_size 2) and eight
\* bytes (chunk_size 3, lines 229-233), with a letter repeated, an upper-case
\* letter and a 'z'
EditPrefixes ==
  {w_a, w_ab, w_abc, <<66, 97, 122>>, <<97, 97, 98, 98>>,
   <<97, 98, 99, 100, 101, 102, 103, 104>>}

\* generate_distance_1_ascii_parallel is called once, on any of the prefixes
\* and any state of the buffer pools of the threads
InitEdit ==
  /\ HIGH_FREQ_TRIE = None
  /\ MID_FREQ_TRIE = None
  /\ LOW_FREQ_TRIE = None
  /\ LAST_INIT_TIME = NoTime
  /\ PREFIX_CACHE = <<>>
  /\ now = 0
  /\ pc = [p \in Procs |-> "idle"]
  /\ loc = [p \in Procs |-> IdleLoc]
  /\ provider = SomePath("freq1.db")
  /\ last_call = NoCall
  /\ completion = NoCompletion
  /\ extracted = NotExtracted
  /\ LoadInit
  /\ listed = NotListed
  /\ json = JsonNew(FALSE, FALSE)
  /\ \E prefix \in EditPrefixes, pools \in [EditThreads -> StalePools] :
       edit = NewEdit(prefix, pools)
  /\ FuzzyInit

NextEdit ==
  \/ \E th \in EditThreads, i \in edit.todo : EditIndex(th, i)
  \/ EditCollect

SpecEdit == InitEdit /\ [][NextEdit]_vars

\* a JSON provider after construction, for any dictionary_path and any state
\* of the dictionary file
InitLazy ==
  /\ HIGH_FREQ_TRIE = None
  /\ MID_FREQ_TRIE = None
  /\ LOW_FREQ_TRIE = None
  /\ LAST_INIT_TIME = NoTime
  /\ PREFIX_CACHE = <<>>
  /\ now = 0
  /\ pc = [p \in Procs |-> "idle"]
  /\ loc = [p \in Procs |-> IdleLoc]
  /\ provider = SomePath("freq1.db")
  /\ last_call = NoCall
  /\ completion = NoCompletion
  /\ extracted = NotExtracted
  /\ LoadInit
  /\ listed = NotListed
  /\ \E path \in BOOLEAN, readable \in BOOLEAN : json = JsonNew(path, readable)
  /\ edit = NoEdit
  /\ FuzzyInit

\* two tasks call the JSON provider; the runtime runs a task that can run
NextLazy ==
  \/ \E t \in JsonTasks, op \in JsonOps : JsonCall(t, op)
  \/ \E t \in JsonTasks : JsonLock(t) \/ JsonReturn(t)
  \/ JsonFileChange

SpecLazy == InitLazy /\ [][NextLazy]_vars /\ WF_vars(NextLazy)

\* the access count of the entry of a key, 0 when there is none
AccessCount(key) ==
  IF \E e \in CANDIDATE_CACHE : e.key = key
  THEN (CHOOSE e \in CANDIDATE_CACHE : e.key = key).access_count
  ELSE 0

\* Calls on RecountPrefix and on short prefixes, one after the other, as long
\* as the access count of the entry of the call is below MaxAccess
NextRecount ==
  \E call \in RecountCalls :
    /\ AccessCount(create_cache_key(call.prefix, call.include_distance_2))
         < MaxAccess
    /\ GenerateCandidates(call.prefix, call.include_distance_2,
                          call.base_words)

SpecRecount == Init /\ [][NextRecount]_vars

----------------------------------------------------------------------------
(* Claims about tire.rs *)

Returned(p, op) == pc[p] = "ret" /\ loc[p].op = op

GoodPaths == {path \in Paths : ~SourceFails(path)}

IndexOf(path) == BuildTries(OrderByFrequencyDesc(Source(path).table))

AtomicResults(prefix, limit) ==
  {FindIn(None, None, None, prefix, limit)} \cup
  {FindIn(Some(IndexOf(path).high), Some(IndexOf(path).mid),
          Some(IndexOf(path).low), prefix, limit) : path \in GoodPaths}

\* every tier the call read was the tier of this index
ViewOf(p, idx) ==
  /\ loc[p].view.high.read
  /\ \A tier \in {"high", "mid", "low"} :
       loc[p].view[tier].read => loc[p].view[tier].trie = Some(idx[tier])

\* SELECT word ... WHERE word LIKE prefix% ORDER BY frequency DESC
RankedMatches(table, prefix) ==
  LET rows == OrderByFrequencyDesc({r \in table : r.ok /\ starts_with(r.word, prefix)})
  IN [i \in 1..Len(rows) |-> rows[i].word]

\* C1: every call find_words_by_prefix(p, limit) returns at most `limit`
\* words, also when the cache holds a result stored with a larger limit.
C1_AtMostLimit ==
  \A p \in Procs : Returned(p, "find") => Len(loc[p].results) <= loc[p].limit

\* C2: a query that runs concurrently with a rebuild returns what the
\* complete old or the complete new index gives: never a mix of tiers of
\* different builds, never a partially installed index.
C2_OldOrNewIndex ==
  \A p \in Procs :
    Returned(p, "find") /\ ~loc[p].hit =>
      loc[p].results \in AtomicResults(loc[p].prefix, loc[p].limit)

\* C3: a cache-miss query against an index built from distinct (word,
\* frequency) pairs returns the matching words in descending-frequency order.
C3_DescendingFrequency ==
  \A p \in Procs : \A path \in GoodPaths :
    Returned(p, "find") /\ ~loc[p].hit /\ ViewOf(p, IndexOf(path)) =>
      loc[p].results =
        Take(RankedMatches(Source(path).table, loc[p].prefix), loc[p].limit)

\* C3, the scenario of the specification: {ab:100, a:50, ac:10} (one word per
\* tier) and prefix "a" give [ab, a, ac] cut to the limit.
C3_ScenarioWitness ==
  \E p \in Procs :
    /\ Returned(p, "find") /\ ~loc[p].hit
    /\ ViewOf(p, IndexOf("freq1.db"))
    /\ loc[p].prefix = w_a /\ loc[p].limit = 2
    /\ loc[p].results = <<w_ab, w_a>>

\* C10: an initialize_global_trie call that fails on its source returns an
\* error and leaves the three tries, the prefix cache and the last-build time
\* as they were; the recency guard is as armed after it as before.
C10_FailedInitChangesNothing ==
  [][\A p \in Procs :
       /\ (pc[p] = "i_open" /\ pc'[p] # pc[p] /\ SourceFails(loc[p].path))
            => /\ pc'[p] = "ret" /\ loc'[p].status = "Err"
               /\ UNCHANGED <<HIGH_FREQ_TRIE, MID_FREQ_TRIE, LOW_FREQ_TRIE,
                              LAST_INIT_TIME, PREFIX_CACHE>>
               /\ (Recent' <=> Recent)
       /\ (loc'[p].op = "init" /\ pc'[p] # pc[p] /\ pc'[p] \in {"i_guard", "i_open"})
            => UNCHANGED <<HIGH_FREQ_TRIE, MID_FREQ_TRIE, LOW_FREQ_TRIE,
                           LAST_INIT_TIME, PREFIX_CACHE>>]_vars

\* C10 happens: a rebuild failed on its source while an earlier index and
\* cached results were in place, and the guard would have allowed the build.
C10_Witness ==
  \E p \in Procs :
    /\ Returned(p, "init") /\ loc[p].status = "Err"
    /\ is_trie_initialized /\ LOW_FREQ_TRIE.some
    /\ PREFIX_CACHE # <<>>
    /\ ~Recent

\* the shared state of tire.rs that a call can change
IndexState ==
  <<HIGH_FREQ_TRIE, MID_FREQ_TRIE, LOW_FREQ_TRIE, LAST_INIT_TIME, PREFIX_CACHE>>

\* the call of p went through a build of its own (it did not stop at the guard)
BuiltItself(p) == loc[p].built # IdleLoc.built

\* C11: an initialize_global_trie call that reaches the guard while the index
\* is ready and less than 3600 s have passed since the last successful build
\* returns Ok without opening the source and leaves the tries, the prefix
\* cache and the last-build time unchanged.
C11_GuardedCallIsNoOp ==
  [][\A p \in Procs :
       (/\ pc[p] = "i_guard" /\ pc'[p] # pc[p]
        /\ HIGH_FREQ_TRIE.some /\ MID_FREQ_TRIE.some /\ LOW_FREQ_TRIE.some
        /\ LAST_INIT_TIME.some /\ now - LAST_INIT_TIME.t < GuardSecs)
       => /\ pc'[p] = "ret" /\ loc'[p].status = "Ok"
          /\ UNCHANGED IndexState]_vars

\* C11 happens: a call was stopped by the guard and returned Ok while cached
\* results of the index were in place.
C11_Witness ==
  \E p \in Procs :
    /\ Returned(p, "init") /\ loc[p].status = "Ok" /\ ~BuiltItself(p)
    /\ LOW_FREQ_TRIE.some /\ PREFIX_CACHE # <<>>

\* the positions of a call that has read its source and installs its tries
Installing == {"i_high", "i_mid", "i_low", "i_clear", "i_stamp"}

ReadOldIndex(p) ==
  /\ loc[p].view.high.read
  /\ \/ \A tier \in {"high", "mid", "low"} :
          loc[p].view[tier].read => loc[p].view[tier].trie = None
     \/ \E path \in GoodPaths : ViewOf(p, IndexOf(path))
  /\ \/ loc[p].view.high.trie # HIGH_FREQ_TRIE
     \/ loc[p].view.mid.read /\ loc[p].view.mid.trie # MID_FREQ_TRIE
     \/ loc[p].view.low.read /\ loc[p].view.low.trie # LOW_FREQ_TRIE

\* the rebuild that replaced the index has installed all tiers and cleared
\* the cache
RebuildCompleted ==
  /\ HIGH_FREQ_TRIE.some /\ MID_FREQ_TRIE.some /\ LOW_FREQ_TRIE.some
  /\ \A q \in Procs : pc[q] \notin {"i_high", "i_mid", "i_low", "i_clear"}

Findable(w) ==
  w \in Range(FindIn(HIGH_FREQ_TRIE, MID_FREQ_TRIE, LOW_FREQ_TRIE, w,
                     Cardinality(HIGH_FREQ_TRIE.words \cup MID_FREQ_TRIE.words
                                   \cup LOW_FREQ_TRIE.words)))

\* C14: a row that does not parse is skipped: initialize_global_trie on a
\* source that opens returns Ok, and after its build every word of the rows
\* that do parse is found by prefix.
C14_BadRowIsSkipped ==
  \A p \in Procs :
    Returned(p, "init") /\ ~SourceFails(loc[p].path) =>
      /\ loc[p].status = "Ok"
      /\ BuiltItself(p) =>
           \A r \in Source(loc[p].path).table : r.ok => Findable(r.word)

\* C14 happens: a build from the source with the unparsable row returned Ok.
C14_Witness ==
  \E p \in Procs :
    /\ Returned(p, "init") /\ loc[p].path = "badrow.db"
    /\ loc[p].status = "Ok" /\ BuiltItself(p)
    /\ \E r \in Source(loc[p].path).table : ~r.ok

\* C15: is_trie_initialized() is false at the start and turns true only by
\* the install of a build; it is true whenever initialize_global_trie has
\* returned Ok; once true it stays true, whatever runs later.
C15_InitializedIsMonotone ==
  /\ ~is_trie_initialized
  /\ [](\A p \in Procs :
          Returned(p, "init") /\ loc[p].status = "Ok" => is_trie_initialized)
  /\ [][/\ is_trie_initialized => is_trie_initialized'
        /\ (~is_trie_initialized /\ is_trie_initialized')
             => \E p \in Procs : pc[p] = "i_high" /\ pc'[p] = "i_mid"]_vars

\* C15 happens: with the index initialized and the guard interval over, a
\* rebuild failed on its source.
C15_Witness ==
  /\ is_trie_initialized /\ ~Recent
  /\ \E p \in Procs : Returned(p, "init") /\ loc[p].status = "Err"

\* a call of find_words_respecting_case with the upper-cased form of q, and
\* what the specification expects of its result: the result of the same
\* call with q, every word capitalized
CaseCallMatches(p, q) ==
  (/\ pc[p] = "idle" /\ pc'[p] = "ret" /\ loc'[p].op = "find_case"
   /\ loc'[p].prefix = UpperFirst(q))
  => loc'[p].results =
       capitalize_all(
         find_words_respecting_case(PREFIX_CACHE, HIGH_FREQ_TRIE, MID_FREQ_TRIE,
                                    LOW_FREQ_TRIE, q, loc'[p].limit).results)

\* C16 as stated: for every prefix and limit, find_words_respecting_case on
\* the prefix with its first character upper-cased returns the list it
\* returns on the lower-case prefix with the first character of every word
\* upper-cased (same words otherwise, same order, same number).
C16_UpperCaseMirrorsLowerCase ==
  [][\A p \in Procs : \A q \in CasePrefixes : CaseCallMatches(p, q)]_vars

\* C16, amended: the same for every prefix whose first character is an ASCII
\* letter.
C16_AsciiUpperCaseMirrorsLowerCase ==
  [][\A p \in Procs : \A q \in CasePrefixes :
       q[1] \in Alphabet => CaseCallMatches(p, q)]_vars

\* C16 happens: with {ab:100, i:50, a:10} installed, "A" gives [Ab, A].
C16_Witness ==
  \E p \in Procs :
    /\ Returned(p, "find_case") /\ loc[p].prefix = <<65>>
    /\ loc[p].results = << <<65, 98>>, <<65>> >>

\* both threads have returned from find_words_by_prefix calls with the same
\* arguments, and both calls missed the cache: each of them started before
\* the other one had stored its result
BothSearched ==
  /\ Returned("t1", "find") /\ Returned("t2", "find")
  /\ loc["t1"].prefix = loc["t2"].prefix /\ loc["t1"].limit = loc["t2"].limit
  /\ ~loc["t1"].hit /\ ~loc["t2"].hit

\* C24: two concurrent first-time find_words_by_prefix calls for the same
\* cold prefix and limit, on an index that is not rebuilt, return the same
\* list, and the prefix cache then holds that list under the prefix.
C24_ConcurrentColdQueriesAgree ==
  BothSearched =>
    /\ loc["t1"].results = loc["t2"].results
    /\ CacheContains(PREFIX_CACHE, loc["t1"].prefix)
    /\ CachePeek(PREFIX_CACHE, loc["t1"].prefix) = loc["t1"].results
    /\ Cardinality(CacheIndex(PREFIX_CACHE, loc["t1"].prefix)) = 1

\* both calls searched the high and the mid tier for "a" with limit 2 and
\* returned the two words
C24_Witness ==
  /\ BothSearched
  /\ loc["t1"].prefix = w_a /\ loc["t1"].limit = 2
  /\ loc["t1"].view.mid.read /\ loc["t2"].view.mid.read
  /\ loc["t2"].results = <<w_ab, w_a>>

----------------------------------------------------------------------------
(* Claims about the facade and the completion handler (SpecFacade) *)

StrictExtension(q, p) == starts_with(q, p) /\ Len(q) > Len(p)

FilterPrefix(ws, q) == SelectSeq(ws, LAMBDA w : starts_with(w, q))

\* the frequency source of the provider cannot be reached
FreqUnreachable == ~provider.some \/ SourceFails(provider.path)

\* a call whose frequency source answered: C4..C7 are stated for such calls,
\* so that the failure path C8 is about plays no part in them
Served(call) == call.called /\ ~FreqUnreachable /\ ~call.task_failed

\* two facade calls in a row: the first returned words, the second asks for
\* a strict extension of the first prefix that some of these words start with
ExtendsLastCall ==
  /\ Served(last_call) /\ last_call.result.kind = "Some"
  /\ Served(last_call')
  /\ StrictExtension(last_call'.prefix, last_call.prefix)
  /\ FilterPrefix(last_call.result.value, last_call'.prefix) # <<>>

\* the three tiers were installed when the call ran
IndexInstalled(call) ==
  call.index.high.some /\ call.index.mid.some /\ call.index.low.some

\* what tire.rs holds for a facade call: the words of the index with the prefix
TrieAnswer(call) ==
  FindIn(call.index.high, call.index.mid, call.index.low, call.prefix, FreqLimit)

\* C4: after find_words_by_prefix(P) returned a non-empty S, the next call
\* with a strict extension P' returns exactly the members of S that start
\* with P', whenever there are some.
C4_NextCallFiltersLast ==
  [][ExtendsLastCall =>
       last_call'.result =
         OkSome(FilterPrefix(last_call.result.value, last_call'.prefix))]_vars

\* C5: in that situation, and with no rebuild between the two calls, the
\* second call runs neither the trie lookup nor the generator nor the
\* frequency query.
C5_NextCallConsultsNothing ==
  [][ExtendsLastCall /\ last_call'.index = last_call.index =>
       /\ ~last_call'.used_trie
       /\ ~last_call'.used_generator
       /\ ~last_call'.used_freq]_vars

\* C6: when the trie is initialized and holds a word with the queried
\* prefix, the facade returns the trie's result and does not run the
\* generator.
C6_TrieBeforeGenerator ==
  Served(last_call) /\ IndexInstalled(last_call) /\ TrieAnswer(last_call) # <<>>
    => /\ last_call.result = OkSome(TrieAnswer(last_call))
       /\ ~last_call.used_generator

\* C7: for the empty prefix the facade returns None and consults neither the
\* trie nor the generator nor the frequency source.
C7_EmptyPrefixRejected ==
  Served(last_call) /\ last_call.prefix = <<>>
    => /\ last_call.result = OkNone
       /\ ~last_call.used_trie
       /\ ~last_call.used_generator
       /\ ~last_call.used_freq

\* C8: when the frequency source of the fallback filter is unreachable, or
\* the blocking task fails, the facade yields "no results" and never an error.
C8_UnreachableIsNoResults ==
  /\ last_call.called
  /\ FreqUnreachable \/ last_call.task_failed
  /\ candidates_of(last_call.prefix) # {}
  => last_call.result \in {OkNone, OkSome(<<>>)}

CandidateRows(call) ==
  {r \in Source(provider.path).table :
     r.ok /\ r.word \in candidates_of(call.prefix)}

InList(w, list) == \E i \in 1..Len(list) : list[i] = w

\* C23: when the facade returns Some(list), the list has 1 to 5 words, each
\* of them a generated candidate with a row in the frequency source; the
\* words are in descending order of frequency, and no candidate row left out
\* has a higher frequency than a word of the list.
C23_TopFiveByFrequency ==
  (last_call.called /\ last_call.result.kind = "Some") =>
    LET list == last_call.result.value
        rows == CandidateRows(last_call)
    IN /\ Len(list) \in 1..5
       /\ \A i \in 1..Len(list) : \E r \in rows : r.word = list[i]
       /\ \A i \in 1..Len(list) : \A j \in (i + 1)..Len(list) :
            \E r \in rows : \E q \in rows :
              r.word = list[i] /\ q.word = list[j] /\ r.frequency >= q.frequency
       /\ \A q \in rows : ~InList(q.word, list) =>
            \A r \in rows : InList(r.word, list) => q.frequency <= r.frequency

\* the table holds seven candidates of the prefix: the call returned the
\* five most frequent ones and left two out
C23_Witness ==
  /\ last_call.called /\ last_call.prefix = w_a
  /\ provider = SomePath("freq8.db")
  /\ last_call.result = OkSome(<<w_ab, w_ac, <<97, 100>>, <<97, 101>>, <<97, 102>>>>)
  /\ Cardinality(CandidateRows(last_call)) = 7

\* C27: when the word before the cursor has fewer than 2 characters,
\* on_completion returns None and does not call the dictionary provider.
C27_ShortWordIsNotLookedUp ==
  (/\ completion.called /\ completion.known /\ completion.word.some
   /\ Len(completion.word.word) < 2)
  => /\ completion.response = ResponseNone
     /\ completion.provider_result = NotAsked

\* C28: when the word before the cursor starts with an upper-case letter,
\* the label and the inserted text of every item are the provider's word
\* with its first letter upper-cased and the rest unchanged, otherwise the
\* provider's word; the items are in the provider's order and every text
\* edit spans from the start of the word to the cursor.
C28_ItemsRespectCapitalization ==
  (completion.called /\ completion.response.kind = "OkSome") =>
    LET words == completion.provider_result.value
        items == completion.response.items
        typed == completion.word
        expected(w) == IF is_uppercase(typed.word[1]) THEN capitalize(w) ELSE w
    IN /\ Len(items) = Len(words)
       /\ \A i \in 1..Len(items) :
            /\ items[i].label = expected(words[i])
            /\ items[i].new_text = expected(words[i])
            /\ items[i].start = typed.start
            /\ items[i].end = typed.start + Len(typed.word)

----------------------------------------------------------------------------
(* Claims about the candidate generator (SpecFuzzy) *)

\* the arguments of the last call are a non-empty prefix of at most 20 bytes
\* (prefix.len(), the length that line 78 compares with 20)
WithinLength(g) ==
  g.called /\ g.prefix # <<>> /\ str_len(g.prefix) <= FuzzyMaxPrefixLen

C18_BoundedAndDistinct ==
  generated.called =>
    LET result == ResultOf(generated)
    IN /\ BagCardinality(result) <= TakeLimit
       /\ \A w \in BagToSet(result) : CopiesIn(w, result) = 1

\* a call returned a list of more than 700 entries, in which the completions
\* of the prefix, generated twice (lines 99-103 and as insertions at the
\* end), occur once
C18_Witness ==
  /\ generated.called /\ generated.prefix = P20
  /\ BagCardinality(ResultOf(generated)) > 700
  /\ \A w \in generate_prefix_completions_ascii(P20) :
       /\ w \in generate_insertions_ascii_parallel(P20)
       /\ CopiesIn(w, ResultOf(generated)) = 1

\* C19: a call with the arguments of the call before it returns the same set
\* of strings, for both values of include_distance_2.
C19_SameArgumentsSameSet ==
  [][(/\ generated.called /\ generated'.called
      /\ generated'.prefix = generated.prefix
      /\ generated'.include_distance_2 = generated.include_distance_2)
     => BagToSet(ResultOf(generated')) = BagToSet(ResultOf(generated))]_vars

\* C20: without the second pass, for a non-empty prefix p of at most 20
\* characters the result contains the 26 strings p followed by a letter, and
\* every string of the result has the first character of p.
C20_CompletionsAndFirstCharacter ==
  (/\ generated.called /\ ~generated.include_distance_2
   /\ generated.prefix # <<>> /\ Len(generated.prefix) <= FuzzyMaxPrefixLen)
  => LET result == BagToSet(ResultOf(generated))
     IN /\ \A c \in Alphabet : Append(generated.prefix, c) \in result
        /\ \A w \in result : w # <<>> /\ w[1] = generated.prefix[1]

\* the step is a call of generate_candidates that was not answered from the
\* hot tier
GeneratedBy(prefix) ==
  generated'.called /\ ~generated'.hot /\ generated'.prefix = prefix

CacheTiersUnchanged == UNCHANGED <<HOT_CACHE, CANDIDATE_CACHE>>

\* C21: generate_candidates("", d) returns exactly the 26 one-letter strings
\* "a".."z", each once, for either d, and leaves both cache tiers as they
\* were.
C21_EmptyPrefixIsAlphabet ==
  [][GeneratedBy(<<>>) =>
       /\ ResultOf(generated') = SetToBag({<<c>> : c \in Alphabet})
       /\ BagCardinality(ResultOf(generated')) = 26
       /\ CacheTiersUnchanged]_vars

\* the empty prefix was given with the second pass asked for, while the
\* cold tier held entries; the tiers hold nothing for the empty prefix
C21_Witness ==
  /\ generated.called /\ generated.prefix = <<>> /\ generated.include_distance_2
  /\ CANDIDATE_CACHE # {}
  /\ \A e \in CANDIDATE_CACHE : e.key[1] # <<>>
  /\ \A i \in 1..Len(HOT_CACHE) : HOT_CACHE[i].key[1] # <<>>

\* the prefixes of the model that are longer than 20: 21 letters, and 21 bytes
\* in 7 characters
OversizedPrefixes ==
  {prefix \in FuzzyPrefixes : str_len(prefix) > FuzzyMaxPrefixLen}

\* C22: for a prefix longer than 20, generate_candidates returns the empty
\* list for either value of include_distance_2 and leaves both cache tiers
\* as they were.
C22_OversizedPrefixIsEmpty ==
  [][(generated'.prefix \in OversizedPrefixes /\ GeneratedBy(generated'.prefix))
     => /\ ResultOf(generated') = EmptyBag
        /\ CacheTiersUnchanged]_vars

\* a prefix of 21 letters was given with the second pass asked for, while
\* the cold tier held entries
C22_Witness ==
  /\ generated.called /\ generated.prefix = LongPrefix
  /\ Len(generated.prefix) = 21 /\ generated.include_distance_2
  /\ CANDIDATE_CACHE # {}
  /\ \A e \in CANDIDATE_CACHE : e.key[1] # LongPrefix

\* C25: a task that is suspended at an await of generate_candidates holds
\* neither the mutex of the hot tier nor a guard on an entry of the cold
\* tier; find_words_by_prefix and initialize_global_trie are not async and
\* have no await.
C25_NoLockAcrossAwait ==
  \A t \in GenTasks : task[t].pc \in AwaitLabels => task[t].held = {}

\* a task is suspended after a hit in the cold tier, with the mutex of the
\* hot tier taken and given back before, while the other task holds a lock
C25_Witness ==
  /\ task["g1"].pc \in AwaitLabels /\ task["g1"].held = {}
  /\ \E e \in CANDIDATE_CACHE : e.key = TaskKey("g1") /\ e.access_count > 1
  /\ task["g2"].held # {}

\* a call hits the entry of the key in the cold tier
ColdHitOn(key) == \E t \in GenTasks : TaskKey(t) = key /\ GenColdHit(t)

\* C26: a cold-tier entry that generate_candidates calls with its key hit
\* again and again is eventually in the hot tier.
C26_HitEntryIsPromoted ==
  ([]<><<ColdHitOn(create_cache_key(w_ab, FALSE))>>_vars)
    => <>CacheContains(HOT_CACHE, create_cache_key(w_ab, FALSE))

\* a character of a word: alphabetic and not CJK
WordChar(c) == is_alphabetic(c) /\ ~is_cjk_char(c)

\* the text before the cursor of the last call, <<>> when the line or the
\* cursor position does not exist
BeforeCursor ==
  LET content == extracted.content
      position == extracted.position
  IN IF position.line + 1 <= Len(content)
        /\ position.character <= Len(content[position.line + 1])
     THEN SubSeq(content[position.line + 1], 1, position.character)
     ELSE <<>>

\* where the maximal run of word characters that ends a text starts (1-based,
\* Len(text) + 1 when the run is empty)
RunStart(text) ==
  CHOOSE j \in 1..(Len(text) + 1) :
    /\ \A i \in j..Len(text) : WordChar(text[i])
    /\ j > 1 => ~WordChar(text[j - 1])

\* C29: get_current_word_and_start returns the maximal run of alphabetic,
\* non-CJK characters that ends at the cursor and the character index where
\* the run starts; it returns None when the line is empty, the cursor is past
\* the end of the line, or the character before the cursor is CJK or not
\* alphabetic; the word it returns contains no CJK character.
C29_WordIsMaximalRunBeforeCursor ==
  extracted.called =>
    LET before == BeforeCursor
        first == RunStart(before)
    IN /\ extracted.result =
            IF first <= Len(before)
            THEN SomeWord(SubSeq(before, first, Len(before)), first - 1)
            ELSE NoWord
       /\ \A i \in 1..Len(extracted.result.word) :
            ~is_cjk_char(extracted.result.word[i])

\* the two letters after a CJK character are found with their start index
C29_Witness ==
  /\ extracted.called
  /\ extracted.content = << <<20320, 97, 66>> >>
  /\ extracted.position = [line |-> 0, character |-> 3]
  /\ extracted.result = SomeWord(<<97, 66>>, 1)

\* C30: every one of the concurrent requests, one per cursor position of the
\* line, that has completed has yielded a non-empty list of completion items,
\* the provider returning words.
C30_EveryRequestYieldsItems ==
  \A r \in Requests :
    request[r].pc = "done" =>
      /\ request[r].response.kind = "OkSome"
      /\ request[r].response.items # <<>>

\* the number of leading characters the claim says are kept: max(len/2, 1)
KeptFront(prefix) ==
  IF Len(prefix) \div 2 >= 1 THEN Len(prefix) \div 2 ELSE 1

\* the word with the letter c put before its 0-based index i
InsertedAt(w, i, c) == SubSeq(w, 1, i) \o <<c>> \o SubSeq(w, i + 1, Len(w))

\* C31: in the distance-1 pass insertions are generated at every position
\* 0..len, and substitutions and deletions edit an index i >= max(len/2, 1)
\* only: with include_distance_2 = false every candidate that is not longer
\* than the prefix agrees with it on its first max(len/2, 1) characters, on
\* the ASCII and on the non-ASCII path.
C31_EditsKeepTheFront ==
  (/\ generated.called /\ ~generated.include_distance_2
   /\ ~returns_early(generated.prefix))
  => LET prefix == generated.prefix
         result == BagToSet(ResultOf(generated))
         k == KeptFront(prefix)
     IN /\ \A i \in 0..Len(prefix), c \in Alphabet :
             InsertedAt(prefix, i, c) \in result
        /\ \A w \in result :
             Len(w) <= Len(prefix) =>
               /\ Len(w) >= k
               /\ SubSeq(w, 1, k) = SubSeq(prefix, 1, k)

\* the call was on the 19-byte, 13-character prefix, on the non-ASCII path;
\* the result holds a substitution at index 6, the deletion of index 6 and
\* an insertion at index 0
C31_Witness ==
  /\ generated.called /\ ~generated.include_distance_2
  /\ generated.prefix = P19 /\ ~is_ascii(P19)
  /\ LET result == BagToSet(ResultOf(generated))
     IN /\ [P19 EXCEPT ![7] = 122] \in result
        /\ SubSeq(P19, 1, 6) \o SubSeq(P19, 8, 13) \in result
        /\ InsertedAt(P19, 0, 122) \in result

\* C32: with include_distance_2 = true every candidate that the distance-1
\* pass alone does not produce is a distance-1 result that starts with the
\* original prefix, followed by one letter a..z.
C32_SecondPassExtendsPrefixKeepers ==
  (/\ generated.called /\ generated.include_distance_2
   /\ ~returns_early(generated.prefix))
  => LET prefix == generated.prefix
         first == BagToSet(distance_1_pass(prefix))
     IN \A w \in BagToSet(ResultOf(generated)) \ first :
          \E b \in first, c \in Alphabet :
            starts_with(b, prefix) /\ w = Append(b, c)

\* the place of a string in the order: 0 when it starts with the prefix, 1
\* otherwise, then its length in bytes
RankOf(w, prefix) == <<IF starts_with(w, prefix) THEN 0 ELSE 1, str_len(w)>>

\* the list the call would return without the cut to 1000 entries
UncutList ==
  LET all == IF listed.include_distance_2
             THEN hash_set_extend(distance_1_pass(listed.prefix),
                    distance_2_pass(base_words_in_order(listed.prefix,
                                                        listed.order_125)))
             ELSE distance_1_pass(listed.prefix)
  IN BagToSet(all)

\* C33: in the list generate_candidates returns every string that starts
\* with the prefix precedes every string that does not, within each of the
\* two groups the lengths do not decrease, and the cut to 1000 entries drops
\* only strings that rank last in this order.
C33_ListIsRanked ==
  (listed.called /\ ~returns_early(listed.prefix)) =>
    LET list == listed.list
        rank == [i \in 1..Len(list) |-> RankOf(list[i], listed.prefix)]
    IN /\ \A i \in 1..(Len(list) - 1) :
            \/ rank[i][1] < rank[i + 1][1]
            \/ rank[i][1] = rank[i + 1][1] /\ rank[i][2] <= rank[i + 1][2]
       /\ Range(list) \subseteq UncutList
       /\ Len(list) = Cardinality(Range(list))
       /\ \A w \in UncutList \ Range(list) :
            /\ Len(list) = TakeLimit
            /\ LET r == RankOf(w, listed.prefix)
               IN \A i \in 1..Len(list) :
                    rank[i][1] < r[1] \/ (rank[i][1] = r[1] /\ rank[i][2] <= r[2])

\* the list of a non-ASCII prefix with the second pass: it holds strings of
\* both groups and of three or more lengths, and two strings of the same
\* length in bytes whose numbers of characters differ
C33_Witness ==
  /\ listed.called /\ listed.include_distance_2
  /\ listed.prefix = <<97, 233, 98>> /\ listed.order_162 = "backward"
  /\ starts_with(listed.list[1], listed.prefix)
  /\ ~starts_with(listed.list[Len(listed.list)], listed.prefix)
  /\ Cardinality({str_len(listed.list[i]) : i \in 1..Len(listed.list)}) >= 3
  /\ \E i, j \in 1..Len(listed.list) :
       /\ str_len(listed.list[i]) = str_len(listed.list[j])
       /\ Len(listed.list[i]) # Len(listed.list[j])

\* the words stored in the index as it is now
CurrentIndexWords ==
  HIGH_FREQ_TRIE.words \cup MID_FREQ_TRIE.words \cup LOW_FREQ_TRIE.words

\* C34: when find_words_by_prefix(p, limit) returns fewer than `limit` words
\* the current index holds no other word with prefix p, and every returned
\* word starts with p and is stored in the current index, after any earlier
\* queries, those for p with a smaller limit included.
C34_ShortResultIsComplete ==
  \A p \in Procs :
    Returned(p, "find") =>
      LET results == Range(loc[p].results)
      IN /\ Len(loc[p].results) < loc[p].limit =>
              \A w \in CurrentIndexWords :
                starts_with(w, loc[p].prefix) => w \in results
         /\ \A w \in results :
              starts_with(w, loc[p].prefix) /\ w \in CurrentIndexWords

\* the keys of the prefix cache
CacheKeys(cache) == {cache[i].key : i \in 1..Len(cache)}

\* the thread returns from find_words_by_prefix with a hit of the cache
HitBy(p) == pc[p] = "q_cache" /\ pc'[p] = "ret"

\* C35: a find_words_by_prefix call that hits the prefix cache changes no
\* state: the cache and its recency order, the tries and the last-build time
\* stay as they are; so an entry that leaves the cache is the least recently
\* inserted one, whether it was hit or not.
C35_HitChangesNoState ==
  [][/\ \A p \in Procs :
          HitBy(p) => UNCHANGED <<PREFIX_CACHE, HIGH_FREQ_TRIE, MID_FREQ_TRIE,
                                  LOW_FREQ_TRIE, LAST_INIT_TIME>>
     /\ PREFIX_CACHE' # PREFIX_CACHE =>
          LET inserted == PREFIX_CACHE'[Len(PREFIX_CACHE')].key
              kept == SubSeq(PREFIX_CACHE', 1, Len(PREFIX_CACHE') - 1)
          IN /\ \E p \in Procs : pc[p] = "q_put" /\ loc[p].prefix = inserted
             /\ ~CacheContains(PREFIX_CACHE, inserted) =>
                  kept = IF Len(PREFIX_CACHE) = PrefixCacheCap
                         THEN Tail(PREFIX_CACHE) ELSE PREFIX_CACHE]_vars

\* the entry of "a" was hit by a call that is about to return, and has been
\* evicted since by the insertion of "ab", while entries that were never
\* hit are still in the cache
C35_Witness ==
  /\ \E p \in Procs : Returned(p, "find") /\ loc[p].hit /\ loc[p].prefix = w_a
  /\ w_a \notin CacheKeys(PREFIX_CACHE)
  /\ w_ab \in CacheKeys(PREFIX_CACHE)
  /\ FillerPrefix(2) \in CacheKeys(PREFIX_CACHE)

\* the call has built the index from its source and the tiers are in place
BuiltFrom(p, path) ==
  /\ Returned(p, "init") /\ loc[p].status = "Ok" /\ BuiltItself(p)
  /\ loc[p].path = path

\* the tiers are those of the rows: row i (from 0) is in the high tier below
\* floor(n/3), in the mid tier below twice that, else in the low tier; a
\* parsed word is in no other tier than that of its row; a tier holds parsed
\* words only; no word of a tier has a lower frequency than a word of a
\* tier below; fewer than 3 rows are all in the low tier with the high tier
\* installed and empty
TiersAreThirds(rows) ==
  LET n == Len(rows)
      third == n \div 3
      tier == <<HIGH_FREQ_TRIE, MID_FREQ_TRIE, LOW_FREQ_TRIE>>
      TierOf(i) == IF i - 1 < third THEN 1 ELSE IF i - 1 < 2 * third THEN 2 ELSE 3
      Parsed == {i \in 1..n : rows[i].ok}
  IN /\ \A t \in 1..3 : tier[t].some
     /\ \A i \in Parsed : \A t \in 1..3 :
          rows[i].word \in tier[t].words <=> t = TierOf(i)
     /\ \A t \in 1..3 : tier[t].words \subseteq {rows[i].word : i \in Parsed}
     /\ \A i, j \in Parsed :
          TierOf(i) < TierOf(j) => rows[i].frequency >= rows[j].frequency
     /\ n < 3 => HIGH_FREQ_TRIE = Some({})
                 /\ LOW_FREQ_TRIE.words = {rows[i].word : i \in Parsed}

\* C36 as stated: after a successful build from n rows in descending order of
\* frequency every parsed word is in exactly one tier, that of its row.
C36_EveryWordInExactlyOneTier ==
  \A p \in Procs, path \in TierPaths :
    BuiltFrom(p, path) =>
      TiersAreThirds(OrderByFrequencyDesc(Source(path).table))

\* no two rows of the table have the same word
OneRowPerWord(table) ==
  \A r, q \in table : (r.ok /\ q.ok /\ r.word = q.word) => r = q

\* C36, amended: the same, for a table in which no word has two rows.
C36_EveryWordInOneTierOfDistinctRows ==
  \A p \in Procs, path \in TierPaths :
    (BuiltFrom(p, path) /\ OneRowPerWord(Source(path).table)) =>
      TiersAreThirds(OrderByFrequencyDesc(Source(path).table))

\* a rebuild from the two-row table has replaced an index: both words are
\* in the low tier, the high and the mid tier are installed and empty
C36_Witness ==
  /\ BuiltFrom("t1", "freq2.db") /\ now > 0
  /\ HIGH_FREQ_TRIE = Some({}) /\ MID_FREQ_TRIE = Some({})
  /\ LOW_FREQ_TRIE = Some({w_ab, w_ac})

----------------------------------------------------------------------------
(* C37: a cold-tier hit never short-circuits generate_candidates and the hot
   tier is never populated, so after any sequential series of calls the hot
   tier is empty and every entry of the cold tier has access count 1 *)
C37_ColdEntriesAreFresh ==
  /\ HOT_CACHE = <<>>
  /\ ~generated.hot
  /\ \A e \in CANDIDATE_CACHE : e.access_count = 1

----------------------------------------------------------------------------
(* C38: every call of JsonDictionaryProvider::get_meaning or
   find_words_by_prefix returns, also when it loads the dictionary lazily:
   no task waits for the lock of dictionary_cache while it holds a guard of
   it itself *)
C38_NoTaskWaitsForItsOwnLock ==
  \A t \in JsonTasks :
    ~(json.call[t].pc \in {"lock_match", "lock_store"} /\ json.guard = t)

----------------------------------------------------------------------------
(* C39: for a non-empty ASCII prefix the chunked parallel distance-1
   generator on bytes yields the set of strings the sequential generator on
   characters yields, whatever thread ran which index and whatever the
   reused buffers held, and neither yields the empty string *)
C39_ParallelYieldsWhatSequentialYields ==
  edit.phase = 4 /\ edit.prefix # <<>> =>
    /\ edit.result_set = generate_distance_1_unicode_modified(edit.prefix)
    /\ <<>> \notin edit.result_set
    /\ <<>> \notin generate_distance_1_unicode_modified(edit.prefix)

\* a run that is complete, deleted a character, and reused a buffer that
\* held the bytes of an earlier call
C39_Witness ==
  /\ edit.phase = 4
  /\ Len(edit.prefix) >= 2
  /\ edit.reused
  /\ \E w \in edit.result_set : Len(w) < Len(edit.prefix)

====
